---------------------------- MODULE Spec2Model ----------------------------
(***************************************************************************)
(* State-machine model of the constant-product exchange (AMM) of the       *)
(* turbin3_rust program: initialize_amm, deposit_liquidity,                *)
(* withdraw_liquidity and swap_tokens, together with the SPL token         *)
(* transfers they request.                                                 *)
(*                                                                         *)
(* Amounts are u64 in the program and the intermediate results of          *)
(* deposit_liquidity / withdraw_liquidity are IEEE-754 binary64 values.    *)
(* TLC's integers are 32 bits wide, so every intermediate result is        *)
(* computed on arbitrary-precision naturals ("Big": little-endian          *)
(* sequences of base-2^15 limbs) with the program's widths and roundings.  *)
(***************************************************************************)
EXTENDS Integers, Sequences, FiniteSets, TLC

(***************************************************************************)
(* Arbitrary-precision naturals.                                           *)
(***************************************************************************)
Base == 32768
LimbBits == 15

\* 2^k for 0 <= k <= 30
Pow2(k) ==
    <<1, 2, 4, 8, 16, 32, 64, 128, 256, 512, 1024, 2048, 4096, 8192, 16384,
      32768, 65536, 131072, 262144, 524288, 1048576, 2097152, 4194304,
      8388608, 16777216, 33554432, 67108864, 134217728, 268435456,
      536870912, 1073741824>>[k + 1]

MaxOf(S) == CHOOSE i \in S : \A j \in S : j <= i

BLimb(x, i) == IF i <= Len(x) THEN x[i] ELSE 0

\* index of the most significant non-zero limb, 0 when there is none
BTop(x) ==
    LET nz == {i \in 1..Len(x) : x[i] # 0}
    IN  IF nz = {} THEN 0 ELSE MaxOf(nz)

\* drops the most significant zero limbs
BNorm(x) == SubSeq(x, 1, BTop(x))

\* the Big of a model integer n >= 0
BN(n) == BNorm(<<n % Base, (n \div Base) % Base, n \div (Base * Base)>>)

\* the model integer of a Big below 2^31
BInt(x) == BLimb(x, 1) + Base * BLimb(x, 2) + Base * Base * BLimb(x, 3)

\* -1, 0, 1 as x < y, x = y, x > y (both normalised)
BCmp(x, y) ==
    IF Len(x) < Len(y) THEN -1
    ELSE IF Len(x) > Len(y) THEN 1
    ELSE LET d == {i \in 1..Len(x) : x[i] # y[i]}
         IN  IF d = {} THEN 0 ELSE IF x[MaxOf(d)] < y[MaxOf(d)] THEN -1 ELSE 1

BLe(x, y) == BCmp(x, y) <= 0
BLt(x, y) == BCmp(x, y) < 0

\* the limbs of x + y for limb sequences of length n; the carry into limb i
\* comes from the nearest limb below it whose sum is not Base - 1
BAddLimbs(x, y, n) ==
    LET s    == <<>> \o [i \in 1..n |-> x[i] + y[i]]
        gen  == {j \in 1..n : s[j] >= Base}
        c(i) == IF \E j \in gen : j < i /\ \A k \in (j + 1)..(i - 1) : s[k] = Base - 1
                THEN 1 ELSE 0
    IN  <<>> \o [i \in 1..(n + c(n + 1)) |-> IF i <= n THEN (s[i] + c(i)) % Base ELSE 1]

\* x + y
BAdd(x, y) ==
    IF Len(x) = 0 THEN y
    ELSE IF Len(y) = 0 THEN x
    ELSE LET n == IF Len(x) < Len(y) THEN Len(y) ELSE Len(x)
         IN  BAddLimbs(<<>> \o [i \in 1..n |-> BLimb(x, i)],
                       <<>> \o [i \in 1..n |-> BLimb(y, i)], n)

\* x - y for x >= y; the borrow from limb i comes from the nearest limb below
\* it where x and y differ
BSub(x, y) ==
    IF Len(y) = 0 THEN x
    ELSE LET n    == Len(x)
             lt   == {j \in 1..n : x[j] < BLimb(y, j)}
             b(i) == IF \E j \in lt : j < i /\ \A k \in (j + 1)..(i - 1) : x[k] = BLimb(y, k)
                     THEN 1 ELSE 0
         IN  BNorm(<<>> \o [i \in 1..n |-> (x[i] - BLimb(y, i) - b(i) + Base) % Base])

Zeros(n) == [i \in 1..n |-> 0]

\* x * d for a single limb 0 <= d < Base
BMulS(x, d) ==
    IF Len(x) = 0 \/ d = 0 THEN <<>>
    ELSE LET n == Len(x)
             p == <<>> \o [i \in 1..n |-> x[i] * d]
         IN  BNorm(BAddLimbs(<<>> \o [i \in 1..(n + 1) |-> IF i <= n THEN p[i] % Base ELSE 0],
                             <<>> \o [i \in 1..(n + 1) |-> IF i = 1 THEN 0 ELSE p[i - 1] \div Base],
                             n + 1))

RECURSIVE BMulRange(_, _, _, _)
\* x * (limbs lo .. hi of y, at their places)
BMulRange(x, y, lo, hi) ==
    IF lo = hi THEN (IF y[lo] = 0 THEN <<>> ELSE Zeros(lo - 1) \o BMulS(x, y[lo]))
    ELSE BAdd(BMulRange(x, y, lo, (lo + hi) \div 2),
              BMulRange(x, y, (lo + hi) \div 2 + 1, hi))

BMul(x, y) == IF Len(x) = 0 \/ Len(y) = 0 THEN <<>> ELSE BMulRange(x, y, 1, Len(y))

\* x * 2^k
BShl(x, k) ==
    IF Len(x) = 0 THEN <<>>
    ELSE Zeros(k \div LimbBits) \o BMulS(x, Pow2(k % LimbBits))

\* floor(x / 2^k)
BShr(x, k) ==
    IF Len(x) <= k \div LimbBits THEN <<>>
    ELSE LET n == k \div LimbBits
             p == Pow2(k % LimbBits)
         IN  BNorm(<<>> \o [i \in 1..(Len(x) - n) |->
                       x[i + n] \div p + (BLimb(x, i + n + 1) % p) * (Base \div p)])

RECURSIVE BDivSRange(_, _, _, _, _)
\* limbs hi .. lo of x brought down after st[2] and divided by d:
\* <<quotient limbs, remainder>>, the quotient limbs before those of st[1]
BDivSRange(x, d, lo, hi, st) ==
    IF lo = hi
    THEN <<<<(st[2] * Base + x[lo]) \div d>> \o st[1], (st[2] * Base + x[lo]) % d>>
    ELSE BDivSRange(x, d, lo, (lo + hi) \div 2,
                    BDivSRange(x, d, (lo + hi) \div 2 + 1, hi, st))

\* <<x \div d, x % d>> for a single limb 0 < d < Base
BDivModS(x, d) ==
    IF Len(x) = 0 THEN <<(<<>>), 0>>
    ELSE LET s == BDivSRange(x, d, 1, Len(x), <<(<<>>), 0>>) IN <<BNorm(s[1]), s[2]>>

\* number of significant bits of n < 2^31
BitLenInt(n) == Cardinality({k \in 0..30 : Pow2(k) <= n})

\* number of significant bits of x
BBitLen(x) == IF Len(x) = 0 THEN 0 ELSE LimbBits * (Len(x) - 1) + BitLenInt(x[Len(x)])

\* bit k (0 = least significant) of x
BBit(x, k) == (BLimb(x, k \div LimbBits + 1) \div Pow2(k % LimbBits)) % 2

BIsZero(x) == Len(x) = 0
BIsOdd(x) == Len(x) > 0 /\ x[1] % 2 = 1
BOne == <<1>>

RECURSIVE BDigit(_, _, _)
\* the largest d <= hi with y * d <= r: one quotient limb, from an estimate hi
\* that is not below it
BDigit(r, y, hi) ==
    IF BLe(BMulS(y, hi), r) THEN hi ELSE BDigit(r, y, hi - 1)

\* the estimate of the quotient limb from the two leading limbs of r and the
\* leading limb of y (at most 2 above it once y's leading limb is >= Base/2)
BDigitEstimate(r, y) ==
    LET e == (BLimb(r, Len(y) + 1) * Base + BLimb(r, Len(y))) \div y[Len(y)]
    IN  IF e < Base THEN e ELSE Base - 1

\* the remainder r2 and the quotient limb d make the next quotient and remainder
BDivPut(q, r2, y, d) == <<<<d>> \o q, BSub(r2, BMulS(y, d))>>

\* one step of schoolbook long division: limb xi is brought down after the
\* remainder st[2]; the quotient limb goes before those of st[1]
BDivStep(xi, y, st) ==
    IF Len(st[2]) = 0 /\ xi = 0 THEN <<<<0>> \o st[1], <<>>>>
    ELSE BDivPut(st[1], <<xi>> \o st[2], y,
                 BDigit(<<xi>> \o st[2], y, BDigitEstimate(<<xi>> \o st[2], y)))

RECURSIVE BDivRange(_, _, _, _, _)
\* the steps for limbs hi .. lo of x after st
BDivRange(x, y, lo, hi, st) ==
    IF lo = hi THEN BDivStep(x[lo], y, st)
    ELSE BDivRange(x, y, lo, (lo + hi) \div 2,
                   BDivRange(x, y, (lo + hi) \div 2 + 1, hi, st))

\* <<x \div y, x % y>> for y > 0; a divisor of several limbs is first scaled
\* to a leading limb >= Base/2, which leaves the quotient as it is
BDivMod(x, y) ==
    IF Len(y) = 1 THEN <<BDivModS(x, y[1])[1], BN(BDivModS(x, y[1])[2])>>
    ELSE IF BLt(x, y) THEN <<(<<>>), x>>
    ELSE LET f  == Base \div (y[Len(y)] + 1)
             xf == BMulS(x, f)
             qr == BDivRange(xf, BMulS(y, f), 1, Len(xf), <<(<<>>), (<<>>)>>)
         IN  <<BNorm(qr[1]), BDivModS(qr[2], f)[1]>>

RECURSIVE IntSqrtFrom(_, _)
\* Newton's iteration on model integers, from r >= floor(sqrt(n)), r > 0
IntSqrtFrom(n, r) ==
    IF (r + n \div r) \div 2 < r THEN IntSqrtFrom(n, (r + n \div r) \div 2) ELSE r

\* floor(sqrt(n)) for 0 <= n < 2^30
IntSqrt(n) == IntSqrtFrom(n, Pow2((BitLenInt(n) + 1) \div 2))

\* an estimate of sqrt(x), not below it, from the one or two leading limbs
BSqrtEstimate(x) ==
    IF Len(x) % 2 = 1
    THEN Zeros((Len(x) - 1) \div 2) \o BN(IntSqrt(x[Len(x)]) + 1)
    ELSE Zeros((Len(x) - 2) \div 2) \o BN(IntSqrt(x[Len(x)] * Base + x[Len(x) - 1]) + 1)

\* q = x \div r; one step of Newton's iteration from above
BSqrtNext(r, q) == IF BLt(q, r) THEN BShr(BAdd(r, q), 1) ELSE r

RECURSIVE BSqrtFrom(_, _, _)
\* Newton's iteration from r >= floor(sqrt(x)); n is the step from r
BSqrtFrom(x, r, n) ==
    IF n = r THEN r ELSE BSqrtFrom(x, n, BSqrtNext(n, BDivMod(x, n)[1]))

\* floor(sqrt(x))
BSqrt(x) ==
    IF Len(x) = 0 THEN <<>>
    ELSE BSqrtFrom(x, BSqrtEstimate(x), BSqrtNext(BSqrtEstimate(x), BDivMod(x, BSqrtEstimate(x))[1]))

\* u64::MAX = 2^64 - 1
U64Max == <<32767, 32767, 32767, 32767, 15>>

(***************************************************************************)
(* IEEE-754 binary64 on the values the program forms: a finite value is    *)
(* m * 2^e with m <= 2^53; the results are rounded to nearest, ties to     *)
(* even, as the hardware does for conversion, *, / and sqrt.               *)
(***************************************************************************)
F64Bits == 53

F64Fin(m, e) == [k |-> "fin", m |-> m, e |-> e]
F64Inf == [k |-> "inf", m |-> <<>>, e |-> 0]
F64NaN == [k |-> "nan", m |-> <<>>, e |-> 0]
F64IsZero(x) == x.k = "fin" /\ BIsZero(x.m)

\* q * 2^e (plus a non-zero fraction below q's last bit when sticky) to binary64
F64Round(q, sticky, e) ==
    LET L == BBitLen(q)
    IN  IF L <= F64Bits THEN F64Fin(q, e)
        ELSE LET d    == L - F64Bits
                 hi   == BShr(q, d)
                 low  == BSub(q, BShl(hi, d))
                 c    == BCmp(low, BShl(BOne, d - 1))
                 up   == c > 0 \/ (c = 0 /\ (sticky \/ BIsOdd(hi)))
             IN  F64Fin(IF up THEN BAdd(hi, BOne) ELSE hi, e + d)

\* n as f64, for a u64 n
F64FromU64(n) == F64Round(n, FALSE, 0)

\* x * y
F64Mul(x, y) ==
    IF x.k = "nan" \/ y.k = "nan" THEN F64NaN
    ELSE IF x.k = "inf" \/ y.k = "inf"
         THEN (IF F64IsZero(x) \/ F64IsZero(y) THEN F64NaN ELSE F64Inf)
    ELSE F64Round(BMul(x.m, y.m), FALSE, x.e + y.e)

\* x / y
F64Div(x, y) ==
    IF x.k = "nan" \/ y.k = "nan" THEN F64NaN
    ELSE IF x.k = "inf" THEN (IF y.k = "inf" THEN F64NaN ELSE F64Inf)
    ELSE IF y.k = "inf" THEN F64Fin(<<>>, 0)
    ELSE IF BIsZero(y.m) THEN (IF BIsZero(x.m) THEN F64NaN ELSE F64Inf)
    ELSE IF BIsZero(x.m) THEN F64Fin(<<>>, 0)
    ELSE LET need == F64Bits + 2 + BBitLen(y.m) - BBitLen(x.m)
             s    == IF need > 0 THEN need ELSE 0
             dm   == BDivMod(BShl(x.m, s), y.m)
         IN  F64Round(dm[1], ~BIsZero(dm[2]), x.e - y.e - s)

\* x.sqrt() for x >= 0
F64Sqrt(x) ==
    IF x.k # "fin" THEN x
    ELSE IF BIsZero(x.m) THEN x
    ELSE LET need == 2 * (F64Bits + 2) - BBitLen(x.m)
             s0   == IF need > 0 THEN need ELSE 0
             s    == IF (x.e + s0) % 2 = 0 THEN s0 ELSE s0 + 1
             n    == BShl(x.m, s)
             q    == BSqrt(n)
         IN  F64Round(q, BMul(q, q) # n, (x.e - s) \div 2)

\* x < y for finite x, y
F64Lt(x, y) ==
    LET lo == IF x.e < y.e THEN x.e ELSE y.e
    IN  BLt(BShl(x.m, x.e - lo), BShl(y.m, y.e - lo))

\* x.min(y): the other operand when one is NaN
F64Min(x, y) ==
    IF x.k = "nan" THEN y
    ELSE IF y.k = "nan" THEN x
    ELSE IF x.k = "inf" THEN y
    ELSE IF y.k = "inf" THEN x
    ELSE IF F64Lt(y, x) THEN y ELSE x

\* x as u64: truncates, saturates, NaN is 0
F64ToU64(x) ==
    IF x.k = "nan" THEN <<>>
    ELSE IF x.k = "inf" THEN U64Max
    ELSE IF x.e < 0 THEN BShr(x.m, -x.e)
    ELSE LET v == BShl(x.m, x.e) IN IF BLt(U64Max, v) THEN U64Max ELSE v

(***************************************************************************)
(* Checked u64 arithmetic: an Option is <<>> (None) or <<v>> (Some(v)).    *)
(***************************************************************************)
None == <<>>
Some(v) == <<v>>
IsSome(o) == Len(o) = 1
Unwrap(o) == o[1]

CheckedMul(x, y) == LET p == BMul(x, y) IN IF BLt(U64Max, p) THEN None ELSE Some(p)
CheckedAdd(x, y) == LET t == BAdd(x, y) IN IF BLt(U64Max, t) THEN None ELSE Some(t)
CheckedDiv(x, y) == IF BIsZero(y) THEN None ELSE Some(BDivMod(x, y)[1])

(***************************************************************************)
(* The amounts the instructions compute (Big in, Option of Big out: None   *)
(* is an unwrap() of None, which aborts the instruction).                  *)
(***************************************************************************)
FeeDenominator == 10000

\* swap_tokens without the fee: the whole amount_in is priced
AmountInWithoutFee(amount_in, fee) == Some(amount_in)

\* swap_tokens: amount_in.checked_mul(10000 - fee).unwrap().checked_div(10000).unwrap()
AmountInWithFee(amount_in, fee) ==
    LET p == CheckedMul(amount_in, BN(FeeDenominator - fee))
    IN  IF IsSome(p) THEN CheckedDiv(Unwrap(p), BN(FeeDenominator)) ELSE None

\* swap_tokens: reserve_out.checked_mul(a).unwrap().checked_div(reserve_in.checked_add(a).unwrap()).unwrap()
SwapAmountOut(reserve_in, reserve_out, amount_in_with_fee) ==
    LET p == CheckedMul(reserve_out, amount_in_with_fee)
        d == CheckedAdd(reserve_in, amount_in_with_fee)
    IN  IF IsSome(p) /\ IsSome(d) THEN CheckedDiv(Unwrap(p), Unwrap(d)) ELSE None

\* deposit_liquidity, lp_supply == 0: (amount_a.checked_mul(amount_b).unwrap() as f64).sqrt() as u64
InitialLpTokens(amount_a, amount_b) ==
    LET p == CheckedMul(amount_a, amount_b)
    IN  IF IsSome(p) THEN Some(F64ToU64(F64Sqrt(F64FromU64(Unwrap(p))))) ELSE None

\* deposit_liquidity, lp_supply > 0: (lp_supply as f64 * ratio_a.min(ratio_b)) as u64
SubsequentLpTokens(lp_supply, vault_a_balance, vault_b_balance, amount_a, amount_b) ==
    LET ratio_a == F64Div(F64FromU64(amount_a), F64FromU64(vault_a_balance))
        ratio_b == F64Div(F64FromU64(amount_b), F64FromU64(vault_b_balance))
        ratio   == F64Min(ratio_a, ratio_b)
    IN  F64ToU64(F64Mul(F64FromU64(lp_supply), ratio))

LpTokensToMint(lp_supply, vault_a_balance, vault_b_balance, amount_a, amount_b) ==
    IF BIsZero(lp_supply)
    THEN InitialLpTokens(amount_a, amount_b)
    ELSE Some(SubsequentLpTokens(lp_supply, vault_a_balance, vault_b_balance, amount_a, amount_b))

\* withdraw_liquidity: (vault_balance as f64 * lp_amount as f64 / lp_supply as f64) as u64
WithdrawAmount(vault_balance, lp_amount, lp_supply) ==
    F64ToU64(F64Div(F64Mul(F64FromU64(vault_balance), F64FromU64(lp_amount)),
                    F64FromU64(lp_supply)))

(***************************************************************************)
(* The accounts.  A token account is <<owner, mint>>; the pool's two       *)
(* reserve vaults are the accounts of mints "A" and "B" owned by the pool  *)
(* ("amm"), the only ones seeded [b"vault_a", amm] and [b"vault_b", amm].  *)
(***************************************************************************)
Users == {"u1"}            \* the signers
Holders == Users \cup {"x"}  \* owners of token accounts; "x" never signs
Mints == {"A", "B"}
Pool == "amm"
Accounts == (Holders \cup {Pool}) \X Mints
Owner(acc) == acc[1]
MintOf(acc) == acc[2]
token_a_vault == <<Pool, "A">>
token_b_vault == <<Pool, "B">>

\* bounds of the exhaustive specification
InitBal == 2
MaxAmount == 2
MaxMin == 1
\* bounds of the scenario specifications: instructions per behaviour, and
\* what a user holds of each asset at the start
MaxSteps == 3
ScenarioBal == 10000

MaxFee == 10000

VARIABLES
    amm,        \* AmmState: [init, fee]
    bal,        \* amount of every token account
    lp_supply,  \* lp_mint.supply
    lp_bal,     \* amount of every user's liquidity-token account
    last,       \* the last instruction: [op, res, args, out]
    steps       \* instructions so far (scenario specifications only)

VARIABLES
    staking_pool,  \* StakingPool: [init, admin, total_staked, reward_rate,
                   \*               last_update_time, accumulated_reward_per_share,
                   \*               cooldown_period]
    user_stake,    \* UserStake of every user: [init, amount, reward_debt,
                   \*                            pending_rewards, last_stake_time]
    stake_bal,     \* amount of every token account of the stake and reward mints
    now,           \* Clock::get()?.unix_timestamp at the last instruction
    total_accrued, \* history: reward_rate * seconds, summed over the time with stake
    total_claimed  \* history: rewards paid by claim_rewards so far

VARIABLES
    marketplace,    \* Marketplace: [init, admin, fee, name]
    listing,        \* Listing of every NFT mint: [init, maker, maker_mint, price]
    vault,          \* the listing's token account of every NFT mint: [init, amount]
    ata,            \* amount of every user's token account of every NFT mint
    lamports,       \* lamports of every wallet and of the treasury
    rewards,        \* amount of every user's token account of the reward mint
    fees_collected, \* history: fees paid into the treasury by purchases
    fees_withdrawn  \* history: lamports paid out of the treasury by withdraw_fees

VARIABLES
    escrow,         \* EscrowState of every maker: [init, maker, mint_a, mint_b,
                    \*                               amount_a, amount_b]
    escrow_vault,   \* the escrow's token account of every maker: [init, mint]
    escrow_bal      \* amount of every token account the escrow instructions see

ammVars == <<amm, bal, lp_supply, lp_bal>>
stakingVars == <<staking_pool, user_stake, stake_bal, now, total_accrued, total_claimed>>
marketVars == <<marketplace, listing, vault, ata, lamports, rewards, fees_collected,
                fees_withdrawn>>
escrowVars == <<escrow, escrow_vault, escrow_bal>>
vars == <<amm, bal, lp_supply, lp_bal, last, steps, staking_pool, user_stake, stake_bal, now,
          total_accrued, total_claimed, marketplace, listing, vault, ata, lamports, rewards,
          fees_collected, fees_withdrawn, escrow, escrow_vault, escrow_bal>>

Reserve(m) == bal[<<Pool, m>>]

Result(op, res, args, out) == [op |-> op, res |-> res, args |-> args, out |-> out]

\* what a transaction leaves: its result, the amounts it computed, the balances
Outcome(res, out, b, supply, lpb) ==
    [res |-> res, out |-> out, bal |-> b, lp_supply |-> supply, lp_bal |-> lpb]

\* an instruction that returns an error or panics: the transaction is rolled back
Err(res, out) == Outcome(res, out, bal, lp_supply, lp_bal)

\* the balances and the result of an instruction become the state
Commit(op, args, o) ==
    /\ bal' = o.bal
    /\ lp_supply' = o.lp_supply
    /\ lp_bal' = o.lp_bal
    /\ last' = Result(op, o.res, args, o.out)
    /\ UNCHANGED amm
    /\ UNCHANGED <<stakingVars, marketVars, escrowVars>>

(***************************************************************************)
(* The SPL token program, as far as the instructions use it.               *)
(***************************************************************************)
\* token::transfer: None when the token program refuses
TokenTransfer(b, from, to, authority, amount) ==
    IF BLt(b[from], amount) THEN None
    ELSE IF MintOf(from) # MintOf(to) THEN None
    ELSE IF Owner(from) # authority THEN None
    ELSE IF from = to THEN Some(b)
    ELSE IF BLt(U64Max, BAdd(b[to], amount)) THEN None
    ELSE Some([b EXCEPT ![from] = BSub(@, amount), ![to] = BAdd(@, amount)])

\* token::mint_to: None when the supply would pass u64::MAX
MintTo(supply, amount) == CheckedAdd(supply, amount)

\* an i64 as sign and magnitude (the magnitude is a limb sequence)
I64Of(n) == [neg |-> n < 0, mag |-> BN(IF n < 0 THEN 0 - n ELSE n)]
I64Max == [neg |-> FALSE, mag |-> BSub(BShl(BOne, 63), BOne)]
I64Positive(x) == ~x.neg /\ ~BIsZero(x.mag)

\* the accounts of the staking instructions
StakeUsers == {"u1", "u2"}
Admin == "admin"
StakingPoolKey == "staking_pool"
StakeMints == {"S", "R"}               \* stake_mint, reward_mint
StakeAccounts == (StakeUsers \cup {Admin, StakingPoolKey}) \X StakeMints
stake_vault == <<StakingPoolKey, "S">>
reward_vault == <<StakingPoolKey, "R">>

\* no staking pool yet: the users hold stake tokens, the users and the admin hold
\* reward tokens
StakingInitWith(stake_balance, reward_balance) ==
    /\ staking_pool = [init |-> FALSE, admin |-> "", total_staked |-> <<>>,
                       reward_rate |-> <<>>,
                       last_update_time |-> 0, accumulated_reward_per_share |-> <<>>,
                       cooldown_period |-> I64Of(0)]
    /\ user_stake = [u \in StakeUsers |->
                       [init |-> FALSE, amount |-> <<>>, reward_debt |-> <<>>,
                        pending_rewards |-> <<>>, last_stake_time |-> 0]]
    /\ stake_bal = [acc \in StakeAccounts |->
                      IF acc[1] \in StakeUsers /\ acc[2] = "S" THEN stake_balance
                      ELSE IF acc[1] # StakingPoolKey /\ acc[2] = "R" THEN reward_balance
                      ELSE <<>>]
    /\ now = 0
    /\ total_accrued = <<>>
    /\ total_claimed = <<>>

\* the accounts of the marketplace instructions
MarketUsers == {"m1", "m2"}                \* the wallets that sign
Treasury == "treasury"                     \* the treasury PDA of the marketplace
NftMints == {"n1", "n2"}                   \* maker_mint: an NFT (supply 1, decimals 0)
FirstHolder(mint) == IF mint = "n1" THEN "m1" ELSE "m2"

\* no marketplace yet: every wallet holds balance lamports and its own NFT
MarketInitWith(balance) ==
    /\ marketplace = [init |-> FALSE, admin |-> "", fee |-> 0, name |-> <<>>]
    /\ listing = [mint \in NftMints |->
                    [init |-> FALSE, maker |-> "", maker_mint |-> mint, price |-> 0]]
    /\ vault = [mint \in NftMints |-> [init |-> FALSE, amount |-> 0]]
    /\ ata = [acc \in MarketUsers \X NftMints |->
                IF acc[1] = FirstHolder(acc[2]) THEN 1 ELSE 0]
    /\ lamports = [w \in MarketUsers \cup {Treasury} |->
                     IF w \in MarketUsers THEN balance ELSE 0]
    /\ rewards = [u \in MarketUsers |-> 0]
    /\ fees_collected = 0
    /\ fees_withdrawn = 0

\* the accounts of the escrow instructions
EscrowUsers == {"e1", "e2"}
EscrowMints == {"A", "B"}
\* the escrow PDA of a maker, authority of its vault
EscrowKey(maker) == IF maker = "e1" THEN "escrow_e1" ELSE "escrow_e2"
\* the owners of token accounts: the users and one more wallet that signs nothing
EscrowWallets == EscrowUsers \cup {"e3"}
EscrowAccounts == (EscrowWallets \cup {EscrowKey(u) : u \in EscrowUsers}) \X EscrowMints

\* no escrow yet: every wallet holds balance of each mint
EscrowInitWith(balance) ==
    /\ escrow = [u \in EscrowUsers |->
                   [init |-> FALSE, maker |-> u, mint_a |-> "A", mint_b |-> "B",
                    amount_a |-> <<>>, amount_b |-> <<>>]]
    /\ escrow_vault = [u \in EscrowUsers |-> [init |-> FALSE, mint |-> "A"]]
    /\ escrow_bal = [acc \in EscrowAccounts |->
                       IF acc[1] \in EscrowWallets THEN balance ELSE <<>>]

\* no AMM pool yet: the users hold balance of each asset
AmmInitWith(balance) ==
    /\ amm = [init |-> FALSE, fee |-> 0]
    /\ bal = [acc \in Accounts |-> IF Owner(acc) \in Users THEN balance ELSE <<>>]
    /\ lp_supply = <<>>
    /\ lp_bal = [u \in Users |-> <<>>]

\* the state the AMM specifications start from: no pool, the users hold balance
InitWith(balance) ==
    /\ AmmInitWith(balance)
    /\ StakingInitWith(<<>>, <<>>)
    /\ MarketInitWith(0)
    /\ EscrowInitWith(<<>>)
    /\ last = Result("none", "Ok", <<>>, <<>>)
    /\ steps = 0

(***************************************************************************)
(* initialize_amm                                                          *)
(***************************************************************************)
\* initialize_amm without the fee check of line 207
InitializeAmmAnyFee(Fees) ==
    \E fee \in Fees :
        /\ ~amm.init
        /\ amm' = [init |-> TRUE, fee |-> fee]
        /\ last' = Result("initialize_amm", "Ok", [fee |-> fee], <<>>)
        /\ UNCHANGED <<bal, lp_supply, lp_bal>>
        /\ UNCHANGED <<stakingVars, marketVars, escrowVars>>

InitializeAmm(Fees) ==
    \E fee \in Fees :
        /\ ~amm.init                \* #[account(init)]: the pool does not exist yet
        /\ amm' = IF fee <= MaxFee THEN [init |-> TRUE, fee |-> fee] ELSE amm
        /\ last' = Result("initialize_amm", IF fee <= MaxFee THEN "Ok" ELSE "InvalidFee",
                          [fee |-> fee], <<>>)
        /\ UNCHANGED <<bal, lp_supply, lp_bal>>
        /\ UNCHANGED <<stakingVars, marketVars, escrowVars>>

(***************************************************************************)
(* deposit_liquidity                                                       *)
(***************************************************************************)
\* the two transfers into the vaults, in order: None when one fails
DepositTransfers(b, user, amount_a, amount_b) ==
    LET t1 == TokenTransfer(b, <<user, "A">>, token_a_vault, user, amount_a)
    IN  IF IsSome(t1)
        THEN TokenTransfer(Unwrap(t1), <<user, "B">>, token_b_vault, user, amount_b)
        ELSE None

\* the instruction from the liquidity tokens it computed (lp: an Option)
DepositSettle(user, amount_a, amount_b, min_lp_tokens, lp) ==
    IF ~IsSome(lp) THEN Err("Panic", <<>>)
    ELSE IF BLt(Unwrap(lp), min_lp_tokens) THEN Err("SlippageExceeded", lp)
    ELSE LET b2  == DepositTransfers(bal, user, amount_a, amount_b)
             sup == MintTo(lp_supply, Unwrap(lp))
         IN  IF ~IsSome(b2) \/ ~IsSome(sup) THEN Err("TokenError", lp)
             ELSE Outcome("Ok", lp, Unwrap(b2), Unwrap(sup),
                          [lp_bal EXCEPT ![user] = BAdd(@, Unwrap(lp))])

DepositLiquidity(Amts, Mins) ==
    \E user \in Users, amount_a \in Amts, amount_b \in Amts :
      \E lp \in {IF BIsZero(amount_a) \/ BIsZero(amount_b) THEN None
                 ELSE LpTokensToMint(lp_supply, Reserve("A"), Reserve("B"), amount_a, amount_b)} :
        \E min_lp_tokens \in Mins :
          \E o \in {IF BIsZero(amount_a) \/ BIsZero(amount_b) THEN Err("InvalidAmount", <<>>)
                    ELSE DepositSettle(user, amount_a, amount_b, min_lp_tokens, lp)} :
            /\ amm.init
            /\ Commit("deposit_liquidity",
                      [user |-> user, amount_a |-> amount_a, amount_b |-> amount_b,
                       min_lp_tokens |-> min_lp_tokens], o)

(***************************************************************************)
(* withdraw_liquidity                                                      *)
(***************************************************************************)
\* token::burn: None when the user holds less than lp_amount
Burn(lpb, user, lp_amount) ==
    IF BLt(lpb[user], lp_amount) THEN None
    ELSE Some([lpb EXCEPT ![user] = BSub(@, lp_amount)])

\* the two transfers out of the vaults, in order: None when one fails
WithdrawTransfers(b, user, amount_a, amount_b) ==
    LET t1 == TokenTransfer(b, token_a_vault, <<user, "A">>, Pool, amount_a)
    IN  IF IsSome(t1)
        THEN TokenTransfer(Unwrap(t1), token_b_vault, <<user, "B">>, Pool, amount_b)
        ELSE None

\* the instruction from the two amounts it computed
WithdrawSettle(user, lp_amount, min_amount_a, min_amount_b, amount_a, amount_b) ==
    IF BLt(amount_a, min_amount_a) \/ BLt(amount_b, min_amount_b)
    THEN Err("SlippageExceeded", <<amount_a, amount_b>>)
    ELSE LET lpb == Burn(lp_bal, user, lp_amount)
             b2  == WithdrawTransfers(bal, user, amount_a, amount_b)
         IN  IF ~IsSome(lpb) \/ ~IsSome(b2) THEN Err("TokenError", <<amount_a, amount_b>>)
             ELSE Outcome("Ok", <<amount_a, amount_b>>, Unwrap(b2),
                          BSub(lp_supply, lp_amount), Unwrap(lpb))

WithdrawLiquidity(Amts, Mins) ==
    \E user \in Users, lp_amount \in Amts :
      \E amount_a \in {IF BIsZero(lp_amount) THEN <<>>
                       ELSE WithdrawAmount(Reserve("A"), lp_amount, lp_supply)},
         amount_b \in {IF BIsZero(lp_amount) THEN <<>>
                       ELSE WithdrawAmount(Reserve("B"), lp_amount, lp_supply)} :
        \E min_amount_a \in Mins, min_amount_b \in Mins :
          \E o \in {IF BIsZero(lp_amount) THEN Err("InvalidAmount", <<>>)
                    ELSE WithdrawSettle(user, lp_amount, min_amount_a, min_amount_b,
                                        amount_a, amount_b)} :
            /\ amm.init
            /\ Commit("withdraw_liquidity",
                      [user |-> user, lp_amount |-> lp_amount,
                       min_amount_a |-> min_amount_a, min_amount_b |-> min_amount_b], o)

(***************************************************************************)
(* swap_tokens                                                             *)
(***************************************************************************)
\* The token accounts a caller passes with user_token_in.  SwapTokens
\* constrains none of the four (#[account(mut)] only): the caller's payment
\* goes to the vault of its mint or to another account of that mint, and the
\* pool pays from either vault to an account of that vault's mint (the
\* caller's own, or another one where that would be user_token_in again).
SwapAccounts(user_token_in) ==
    {[user_token_in   |-> user_token_in,
      vault_token_in  |-> <<h_in, MintOf(user_token_in)>>,
      vault_token_out |-> <<Pool, m_out>>,
      user_token_out  |-> <<IF m_out = MintOf(user_token_in) THEN "x"
                            ELSE Owner(user_token_in), m_out>>] :
        h_in \in {Pool, "x"}, m_out \in Mints}

\* if token_a_vault.mint == user_token_in.mint { A for B } else { B for A }
SwapAForB(user_token_in) == MintOf(token_a_vault) = MintOf(user_token_in)

\* amount_out of swap_tokens: an Option, None when an unwrap() panics
ComputeAmountOut(user_token_in, vault_a_balance, vault_b_balance, amount_in, fee) ==
    LET amount_in_with_fee == AmountInWithFee(amount_in, fee)
    IN  IF ~IsSome(amount_in_with_fee) THEN None
        ELSE IF SwapAForB(user_token_in)
        THEN SwapAmountOut(vault_a_balance, vault_b_balance, Unwrap(amount_in_with_fee))
        ELSE SwapAmountOut(vault_b_balance, vault_a_balance, Unwrap(amount_in_with_fee))

\* the two transfers of a swap, in order: None when one fails
SwapTransfers(b, acc, amount_in, amount_out) ==
    LET t1 == TokenTransfer(b, acc.user_token_in, acc.vault_token_in,
                            Owner(acc.user_token_in), amount_in)
    IN  IF IsSome(t1)
        THEN TokenTransfer(Unwrap(t1), acc.vault_token_out, acc.user_token_out, Pool, amount_out)
        ELSE None

\* swap_tokens checking the slippage after the payment, with nothing undone
SwapSettlePaidFirst(acc, amount_in, min_amount_out, amount_out) ==
    IF ~IsSome(amount_out) THEN Err("Panic", <<>>)
    ELSE LET t1 == TokenTransfer(bal, acc.user_token_in, acc.vault_token_in,
                                 Owner(acc.user_token_in), amount_in)
         IN  IF ~IsSome(t1) THEN Err("TokenError", amount_out)
             ELSE IF BLt(Unwrap(amount_out), min_amount_out)
             THEN Outcome("SlippageExceeded", amount_out, Unwrap(t1), lp_supply, lp_bal)
             ELSE LET b2 == TokenTransfer(Unwrap(t1), acc.vault_token_out, acc.user_token_out,
                                          Pool, Unwrap(amount_out))
                  IN  IF ~IsSome(b2) THEN Err("TokenError", amount_out)
                      ELSE Outcome("Ok", amount_out, Unwrap(b2), lp_supply, lp_bal)

\* the instruction from the amount_out it computed (an Option)
SwapSettle(acc, amount_in, min_amount_out, amount_out) ==
    IF ~IsSome(amount_out) THEN Err("Panic", <<>>)
    ELSE IF BLt(Unwrap(amount_out), min_amount_out) THEN Err("SlippageExceeded", amount_out)
    ELSE LET b2 == SwapTransfers(bal, acc, amount_in, Unwrap(amount_out))
         IN  IF ~IsSome(b2) THEN Err("TokenError", amount_out)
             ELSE Outcome("Ok", amount_out, Unwrap(b2), lp_supply, lp_bal)

\* swap_tokens without the amount check of line 351
SwapTokensUnchecked(Amts, Mins) ==
    \E user \in Users, m_in \in Mints, amount_in \in Amts :
      \E amount_out \in {ComputeAmountOut(<<user, m_in>>, Reserve("A"), Reserve("B"),
                                          amount_in, amm.fee)} :
        \E min_amount_out \in Mins, acc \in SwapAccounts(<<user, m_in>>) :
          \E o \in {SwapSettle(acc, amount_in, min_amount_out, amount_out)} :
            /\ amm.init
            /\ Commit("swap_tokens",
                      [amount_in |-> amount_in, min_amount_out |-> min_amount_out,
                       accounts |-> acc], o)

SwapTokens(Amts, Mins) ==
    \E user \in Users, m_in \in Mints, amount_in \in Amts :
      \E amount_out \in {IF BIsZero(amount_in) THEN None
                         ELSE ComputeAmountOut(<<user, m_in>>, Reserve("A"), Reserve("B"),
                                               amount_in, amm.fee)} :
        \E min_amount_out \in Mins, acc \in SwapAccounts(<<user, m_in>>) :
          \E o \in {IF BIsZero(amount_in) THEN Err("InvalidAmount", <<>>)
                    ELSE SwapSettle(acc, amount_in, min_amount_out, amount_out)} :
            /\ amm.init
            /\ Commit("swap_tokens",
                      [amount_in |-> amount_in, min_amount_out |-> min_amount_out,
                       accounts |-> acc], o)

(***************************************************************************)
(* The staking program.  Amounts, the reward rate and the accumulator are  *)
(* u64 (limb sequences); timestamps are i64 seconds and stay small here.   *)
(***************************************************************************)
Precision == BN(1000000000)            \* the literal 1_000_000_000

\* (x as u64) of a u128: the low 64 bits
TruncU64(x) ==
    BNorm(<<BLimb(x, 1), BLimb(x, 2), BLimb(x, 3), BLimb(x, 4), BLimb(x, 5) % 16>>)

\* rewards_per_share with the interval measured from time 0 instead of last_update_time
RewardsPerShareFromStart(pool, current_time) ==
    TruncU64(BDivMod(BMul(pool.reward_rate, BN(current_time)), pool.total_staked)[1])

\* rewards_per_share over an interval one second longer than the elapsed time
RewardsPerShareInclusive(pool, current_time) ==
    TruncU64(BDivMod(BMul(pool.reward_rate,
                          BN(current_time - pool.last_update_time + 1)),
                     pool.total_staked)[1])

\* rewards_per_share as u64, for a pool with total_staked > 0
RewardsPerShare(pool, current_time) ==
    TruncU64(BDivMod(BMul(pool.reward_rate, BN(current_time - pool.last_update_time)),
                     pool.total_staked)[1])

\* the reward update with last_update_time set only inside the total_staked > 0 branch
UpdatePoolSkipsIdle(pool, current_time) ==
    IF BIsZero(pool.total_staked) THEN Some(pool)
    ELSE LET acc == CheckedAdd(pool.accumulated_reward_per_share,
                               RewardsPerShare(pool, current_time))
         IN  IF IsSome(acc)
             THEN Some([pool EXCEPT !.accumulated_reward_per_share = Unwrap(acc),
                                    !.last_update_time = current_time])
             ELSE None

\* the reward update every staking instruction starts with; None when checked_add fails
UpdatePool(pool, current_time) ==
    IF BIsZero(pool.total_staked)
    THEN Some([pool EXCEPT !.last_update_time = current_time])
    ELSE LET acc == CheckedAdd(pool.accumulated_reward_per_share,
                               RewardsPerShare(pool, current_time))
         IN  IF IsSome(acc)
             THEN Some([pool EXCEPT !.accumulated_reward_per_share = Unwrap(acc),
                                    !.last_update_time = current_time])
             ELSE None

\* (amount as u128 * accumulated_reward_per_share as u128 / 1_000_000_000) as u64
\* reward_debt rounded up instead of down
RewardDebtRoundedUp(amount, acc) ==
    TruncU64(BDivMod(BAdd(BMul(amount, acc), BSub(Precision, BOne)), Precision)[1])

RewardDebt(amount, acc) == TruncU64(BDivMod(BMul(amount, acc), Precision)[1])

\* pending as u64, where pending = amount * acc / 1_000_000_000 - reward_debt in u128;
\* None when the subtraction underflows
PendingReward(stake, acc) ==
    LET earned == BDivMod(BMul(stake.amount, acc), Precision)[1]
    IN  IF BLt(earned, stake.reward_debt) THEN None
        ELSE Some(TruncU64(BSub(earned, stake.reward_debt)))

\* pending_rewards.checked_add(pending as u64)
SettlePending(stake, acc) ==
    LET pending == PendingReward(stake, acc)
    IN  IF IsSome(pending) THEN CheckedAdd(stake.pending_rewards, Unwrap(pending)) ELSE None

\* the token account a caller may pass where the instruction constrains nothing:
\* its own account of the mint, or the pool's vault of that mint
TokenAccountChoices(user, mint) == {<<user, mint>>, <<StakingPoolKey, mint>>}

StakeOutcome(res, out, pool, stakes, b) ==
    [res |-> res, out |-> out, pool |-> pool, user_stake |-> stakes, stake_bal |-> b]

\* what a successful instruction reports: the interval its reward update covered
Elapsed(current_time) == [time_elapsed |-> current_time - staking_pool.last_update_time]

\* a failed instruction changes no account
StakeErr(res) == StakeOutcome(res, <<>>, staking_pool, user_stake, stake_bal)

StakeCommit(op, args, o, current_time) ==
    /\ staking_pool' = o.pool
    /\ user_stake' = o.user_stake
    /\ stake_bal' = o.stake_bal
    /\ now' = current_time
    /\ total_accrued' = IF staking_pool.init /\ ~BIsZero(staking_pool.total_staked)
                        THEN BAdd(total_accrued,
                                  BMul(staking_pool.reward_rate, BN(current_time - now)))
                        ELSE total_accrued
    /\ total_claimed' = IF op = "claim_rewards" /\ o.res = "Ok"
                        THEN BAdd(total_claimed, o.out.total_rewards)
                        ELSE total_claimed
    /\ last' = Result(op, o.res, args, o.out)
    /\ UNCHANGED <<ammVars, marketVars, escrowVars>>

(***************************************************************************)
(* initialize_staking_pool                                                 *)
(***************************************************************************)
\* initialize_staking_pool without the check of cooldown_period
InitializeStakingPoolAnyCooldown(Rates, Cooldowns, Dts) ==
    \E reward_rate \in Rates, cooldown_period \in Cooldowns, dt \in Dts :
      \E current_time \in {now + dt} :
        \E o \in {IF BIsZero(reward_rate)
                  THEN StakeErr("InvalidAmount")
                  ELSE StakeOutcome("Ok", <<>>,
                                    [init |-> TRUE, admin |-> Admin,
                                     total_staked |-> <<>>,
                                     reward_rate |-> reward_rate,
                                     last_update_time |-> current_time,
                                     accumulated_reward_per_share |-> <<>>,
                                     cooldown_period |-> cooldown_period],
                                    user_stake, stake_bal)} :
          /\ ~staking_pool.init
          /\ StakeCommit("initialize_staking_pool",
                         [reward_rate |-> reward_rate, cooldown_period |-> cooldown_period,
                          current_time |-> current_time], o, current_time)

InitializeStakingPool(Rates, Cooldowns, Dts) ==
    \E reward_rate \in Rates, cooldown_period \in Cooldowns, dt \in Dts :
      \E current_time \in {now + dt} :
        \E o \in {IF BIsZero(reward_rate) \/ ~I64Positive(cooldown_period)
                  THEN StakeErr("InvalidAmount")
                  ELSE StakeOutcome("Ok", <<>>,
                                    [init |-> TRUE, admin |-> Admin,
                                     total_staked |-> <<>>,
                                     reward_rate |-> reward_rate,
                                     last_update_time |-> current_time,
                                     accumulated_reward_per_share |-> <<>>,
                                     cooldown_period |-> cooldown_period],
                                    user_stake, stake_bal)} :
          /\ ~staking_pool.init     \* #[account(init)]: the pool does not exist yet
          /\ StakeCommit("initialize_staking_pool",
                         [reward_rate |-> reward_rate, cooldown_period |-> cooldown_period,
                          current_time |-> current_time], o, current_time)

(***************************************************************************)
(* stake_tokens                                                            *)
(***************************************************************************)
StakeSettle(user, amount, current_time, user_stake_account) ==
    LET pool == UpdatePool(staking_pool, current_time)
    IN  IF ~IsSome(pool) THEN StakeErr("Panic")
        ELSE LET acc   == Unwrap(pool).accumulated_reward_per_share
                 total == CheckedAdd(Unwrap(pool).total_staked, amount)
                 b     == TokenTransfer(stake_bal, user_stake_account, stake_vault,
                                        user, amount)
             IN  IF ~IsSome(total) THEN StakeErr("Panic")
                 ELSE IF ~IsSome(b) THEN StakeErr("TokenError")
                 ELSE StakeOutcome("Ok", Elapsed(current_time),
                          [Unwrap(pool) EXCEPT !.total_staked = Unwrap(total)],
                          [user_stake EXCEPT ![user] =
                              [init |-> TRUE, amount |-> amount,
                               reward_debt |-> RewardDebt(amount, acc),
                               pending_rewards |-> <<>>,
                               last_stake_time |-> current_time]],
                          Unwrap(b))

\* stake_tokens with init_if_needed in place of init on the position
StakeTokensAgain(Amts, Dts) ==
    \E user \in StakeUsers, amount \in Amts, dt \in Dts :
      \E user_stake_account \in TokenAccountChoices(user, "S"), current_time \in {now + dt} :
        \E o \in {IF BIsZero(amount) THEN StakeErr("InvalidAmount")
                  ELSE StakeSettle(user, amount, current_time, user_stake_account)} :
          /\ staking_pool.init
          /\ StakeCommit("stake_tokens",
                         [user |-> user, amount |-> amount, current_time |-> current_time,
                          user_stake_account |-> user_stake_account], o, current_time)

\* #[account(init)] on user_stake: creating the account of an existing position fails
\* before the handler runs
StakeTokens(Amts, Dts) ==
    \E user \in StakeUsers, amount \in Amts, dt \in Dts :
      \E user_stake_account \in TokenAccountChoices(user, "S"), current_time \in {now + dt} :
        \E o \in {IF user_stake[user].init THEN StakeErr("AccountAlreadyInUse")
                  ELSE IF BIsZero(amount) THEN StakeErr("InvalidAmount")
                  ELSE StakeSettle(user, amount, current_time, user_stake_account)} :
          /\ staking_pool.init
          /\ StakeCommit("stake_tokens",
                         [user |-> user, amount |-> amount, current_time |-> current_time,
                          user_stake_account |-> user_stake_account], o, current_time)

(***************************************************************************)
(* add_stake                                                               *)
(***************************************************************************)
AddStakeSettle(user, amount, current_time, user_stake_account) ==
    LET pool == UpdatePool(staking_pool, current_time)
    IN  IF ~IsSome(pool) THEN StakeErr("Panic")
        ELSE LET acc     == Unwrap(pool).accumulated_reward_per_share
                 stake   == user_stake[user]
                 pending == IF BIsZero(stake.amount) THEN Some(stake.pending_rewards)
                            ELSE SettlePending(stake, acc)
                 staked  == CheckedAdd(stake.amount, amount)
                 total   == CheckedAdd(Unwrap(pool).total_staked, amount)
                 b       == TokenTransfer(stake_bal, user_stake_account, stake_vault,
                                          user, amount)
             IN  IF ~IsSome(pending) \/ ~IsSome(staked) \/ ~IsSome(total)
                 THEN StakeErr("Panic")
                 ELSE IF ~IsSome(b) THEN StakeErr("TokenError")
                 ELSE StakeOutcome("Ok", Elapsed(current_time),
                          [Unwrap(pool) EXCEPT !.total_staked = Unwrap(total)],
                          [user_stake EXCEPT ![user] =
                              [stake EXCEPT !.pending_rewards = Unwrap(pending),
                                            !.amount = Unwrap(staked),
                                            !.last_stake_time = current_time,
                                            !.reward_debt = RewardDebt(Unwrap(staked), acc)]],
                          Unwrap(b))

AddStake(Amts, Dts) ==
    \E user \in StakeUsers, position \in StakeUsers, amount \in Amts, dt \in Dts :
      \E user_stake_account \in TokenAccountChoices(user, "S"), current_time \in {now + dt} :
        \E o \in {IF position # user THEN StakeErr("ConstraintSeeds")
                  ELSE IF BIsZero(amount) THEN StakeErr("InvalidAmount")
                  ELSE AddStakeSettle(user, amount, current_time, user_stake_account)} :
          /\ staking_pool.init
          /\ user_stake[position].init    \* the user_stake account passed exists
          /\ StakeCommit("add_stake",
                         [user |-> user, position |-> position, amount |-> amount,
                          current_time |-> current_time,
                          user_stake_account |-> user_stake_account], o, current_time)

(***************************************************************************)
(* unstake_tokens                                                          *)
(***************************************************************************)
\* unstake_tokens with the reward update moved behind the change of total_staked
UnstakeSettleLateUpdate(user, amount, current_time, user_stake_account) ==
    LET pool == UpdatePool([staking_pool EXCEPT !.total_staked = BSub(@, amount)],
                           current_time)
    IN  IF ~IsSome(pool) THEN StakeErr("Panic")
        ELSE LET acc     == Unwrap(pool).accumulated_reward_per_share
                 stake   == user_stake[user]
                 pending == SettlePending(stake, acc)
                 staked  == BSub(stake.amount, amount)
                 b       == TokenTransfer(stake_bal, stake_vault, user_stake_account,
                                          StakingPoolKey, amount)
             IN  IF ~IsSome(pending) THEN StakeErr("Panic")
                 ELSE IF ~IsSome(b) THEN StakeErr("TokenError")
                 ELSE StakeOutcome("Ok", Elapsed(current_time), Unwrap(pool),
                          [user_stake EXCEPT ![user] =
                              [stake EXCEPT !.pending_rewards = Unwrap(pending),
                                            !.amount = staked,
                                            !.reward_debt = RewardDebt(staked, acc)]],
                          Unwrap(b))

\* unstake_tokens without the update of total_staked
UnstakeSettleKeepsTotal(user, amount, current_time, user_stake_account) ==
    LET pool == UpdatePool(staking_pool, current_time)
    IN  IF ~IsSome(pool) THEN StakeErr("Panic")
        ELSE LET acc     == Unwrap(pool).accumulated_reward_per_share
                 stake   == user_stake[user]
                 pending == SettlePending(stake, acc)
                 staked  == BSub(stake.amount, amount)
                 b       == TokenTransfer(stake_bal, stake_vault, user_stake_account,
                                          StakingPoolKey, amount)
             IN  IF ~IsSome(pending) THEN StakeErr("Panic")
                 ELSE IF ~IsSome(b) THEN StakeErr("TokenError")
                 ELSE StakeOutcome("Ok", Elapsed(current_time), Unwrap(pool),
                          [user_stake EXCEPT ![user] =
                              [stake EXCEPT !.pending_rewards = Unwrap(pending),
                                            !.amount = staked,
                                            !.reward_debt = RewardDebt(staked, acc)]],
                          Unwrap(b))

UnstakeSettle(user, amount, current_time, user_stake_account) ==
    LET pool == UpdatePool(staking_pool, current_time)
    IN  IF ~IsSome(pool) THEN StakeErr("Panic")
        ELSE LET acc     == Unwrap(pool).accumulated_reward_per_share
                 stake   == user_stake[user]
                 pending == SettlePending(stake, acc)
                 staked  == BSub(stake.amount, amount)
                 b       == TokenTransfer(stake_bal, stake_vault, user_stake_account,
                                          StakingPoolKey, amount)
             IN  IF ~IsSome(pending) \/ BLt(Unwrap(pool).total_staked, amount)
                 THEN StakeErr("Panic")
                 ELSE IF ~IsSome(b) THEN StakeErr("TokenError")
                 ELSE StakeOutcome("Ok", Elapsed(current_time),
                          [Unwrap(pool) EXCEPT !.total_staked = BSub(@, amount)],
                          [user_stake EXCEPT ![user] =
                              [stake EXCEPT !.pending_rewards = Unwrap(pending),
                                            !.amount = staked,
                                            !.reward_debt = RewardDebt(staked, acc)]],
                          Unwrap(b))

\* last_stake_time + cooldown_period, as a natural number
CooldownEnd(stake, pool) == BAdd(BN(stake.last_stake_time), pool.cooldown_period.mag)

\* current_time >= last_stake_time + cooldown_period in i64.  A sum above i64::MAX
\* panics in a build with overflow checks and wraps to a negative number in a build
\* without them, where the comparison then passes.
CooldownCheck(stake, pool, current_time) ==
    IF BLt(I64Max.mag, CooldownEnd(stake, pool)) THEN {"Panic", "Ok"}
    ELSE IF BLt(BN(current_time), CooldownEnd(stake, pool)) THEN {"CooldownNotMet"}
    ELSE {"Ok"}

\* unstake_tokens without the seeds constraint on user_stake: the instruction acts on
\* whatever position account it is handed
UnstakeTokensAnyPosition(Amts, Dts) ==
    \E user \in StakeUsers, position \in StakeUsers, amount \in Amts, dt \in Dts :
      \E user_stake_account \in TokenAccountChoices(user, "S"), current_time \in {now + dt},
         cooldown \in CooldownCheck(user_stake[position], staking_pool, now + dt) :
        \E o \in {IF BIsZero(amount) THEN StakeErr("InvalidAmount")
                  ELSE IF BLt(user_stake[position].amount, amount)
                  THEN StakeErr("InsufficientFunds")
                  ELSE IF cooldown # "Ok" THEN StakeErr(cooldown)
                  ELSE UnstakeSettle(position, amount, current_time, user_stake_account)} :
          /\ staking_pool.init
          /\ user_stake[position].init
          /\ StakeCommit("unstake_tokens",
                         [user |-> user, position |-> position, amount |-> amount,
                          current_time |-> current_time,
                          user_stake_account |-> user_stake_account], o, current_time)

UnstakeTokens(Amts, Dts) ==
    \E user \in StakeUsers, position \in StakeUsers, amount \in Amts, dt \in Dts :
      \E user_stake_account \in TokenAccountChoices(user, "S"), current_time \in {now + dt},
         cooldown \in CooldownCheck(user_stake[user], staking_pool, now + dt) :
        \E o \in {IF position # user THEN StakeErr("ConstraintSeeds")
                  ELSE IF BIsZero(amount) THEN StakeErr("InvalidAmount")
                  ELSE IF BLt(user_stake[user].amount, amount)
                  THEN StakeErr("InsufficientFunds")
                  ELSE IF cooldown # "Ok" THEN StakeErr(cooldown)
                  ELSE UnstakeSettle(user, amount, current_time, user_stake_account)} :
          /\ staking_pool.init
          /\ user_stake[position].init    \* the user_stake account passed exists
          /\ StakeCommit("unstake_tokens",
                         [user |-> user, position |-> position, amount |-> amount,
                          current_time |-> current_time,
                          user_stake_account |-> user_stake_account], o, current_time)

(***************************************************************************)
(* claim_rewards                                                           *)
(***************************************************************************)
\* claim_rewards whose failed payment leaves the updated pool and position behind
ClaimSettlePartial(user, current_time, user_reward_account) ==
    LET pool == UpdatePool(staking_pool, current_time)
    IN  IF ~IsSome(pool) THEN StakeErr("Panic")
        ELSE LET acc   == Unwrap(pool).accumulated_reward_per_share
                 stake == user_stake[user]
                 total_rewards == IF BIsZero(stake.amount) THEN Some(stake.pending_rewards)
                                  ELSE SettlePending(stake, acc)
                 stakes == [user_stake EXCEPT ![user] =
                               [stake EXCEPT !.pending_rewards = <<>>,
                                             !.reward_debt = RewardDebt(stake.amount, acc)]]
             IN  IF ~IsSome(total_rewards) THEN StakeErr("Panic")
                 ELSE IF BIsZero(Unwrap(total_rewards)) THEN StakeErr("NoRewardsToClaim")
                 ELSE LET b == TokenTransfer(stake_bal, reward_vault, user_reward_account,
                                             StakingPoolKey, Unwrap(total_rewards))
                      IN  IF ~IsSome(b)
                          THEN StakeOutcome("TokenError", <<>>, Unwrap(pool), stakes,
                                            stake_bal)
                          ELSE StakeOutcome("Ok",
                                   [time_elapsed |-> Elapsed(current_time).time_elapsed,
                                    total_rewards |-> Unwrap(total_rewards)],
                                   Unwrap(pool), stakes, Unwrap(b))

ClaimSettle(user, current_time, user_reward_account) ==
    LET pool == UpdatePool(staking_pool, current_time)
    IN  IF ~IsSome(pool) THEN StakeErr("Panic")
        ELSE LET acc   == Unwrap(pool).accumulated_reward_per_share
                 stake == user_stake[user]
                 total_rewards == IF BIsZero(stake.amount) THEN Some(stake.pending_rewards)
                                  ELSE SettlePending(stake, acc)
             IN  IF ~IsSome(total_rewards) THEN StakeErr("Panic")
                 ELSE IF BIsZero(Unwrap(total_rewards)) THEN StakeErr("NoRewardsToClaim")
                 ELSE LET b == TokenTransfer(stake_bal, reward_vault, user_reward_account,
                                             StakingPoolKey, Unwrap(total_rewards))
                      IN  IF ~IsSome(b) THEN StakeErr("TokenError")
                          ELSE StakeOutcome("Ok",
                                   [time_elapsed |-> Elapsed(current_time).time_elapsed,
                                    total_rewards |-> Unwrap(total_rewards)],
                                   Unwrap(pool),
                                   [user_stake EXCEPT ![user] =
                                       [stake EXCEPT !.pending_rewards = <<>>,
                                                     !.reward_debt =
                                                         RewardDebt(stake.amount, acc)]],
                                   Unwrap(b))

ClaimRewards(Dts) ==
    \E user \in StakeUsers, position \in StakeUsers, dt \in Dts :
      \E user_reward_account \in TokenAccountChoices(user, "R"), current_time \in {now + dt} :
        \E o \in {IF position # user THEN StakeErr("ConstraintSeeds")
                  ELSE ClaimSettle(user, current_time, user_reward_account)} :
          /\ staking_pool.init
          /\ user_stake[position].init    \* the user_stake account passed exists
          /\ StakeCommit("claim_rewards",
                         [user |-> user, position |-> position,
                          current_time |-> current_time,
                          user_reward_account |-> user_reward_account], o, current_time)

(***************************************************************************)
(* fund_rewards                                                            *)
(***************************************************************************)
\* fund_rewards without has_one = admin
FundRewardsAnySigner(Amts, Dts) ==
    \E admin \in StakeUsers \cup {Admin}, amount \in Amts, dt \in Dts :
      \E admin_reward_account \in TokenAccountChoices(admin, "R"),
         current_time \in {now + dt} :
        \E b \in {TokenTransfer(stake_bal, admin_reward_account, reward_vault,
                                admin, amount)} :
          \E o \in {IF BIsZero(amount) THEN StakeErr("InvalidAmount")
                    ELSE IF ~IsSome(b) THEN StakeErr("TokenError")
                    ELSE StakeOutcome("Ok", <<>>, staking_pool, user_stake, Unwrap(b))} :
            /\ staking_pool.init
            /\ StakeCommit("fund_rewards",
                           [admin |-> admin, amount |-> amount,
                            current_time |-> current_time,
                            admin_reward_account |-> admin_reward_account],
                           o, current_time)

FundRewards(Amts, Dts) ==
    \E admin \in StakeUsers \cup {Admin}, amount \in Amts, dt \in Dts :
      \E admin_reward_account \in TokenAccountChoices(admin, "R"),
         current_time \in {now + dt} :
        \E b \in {TokenTransfer(stake_bal, admin_reward_account, reward_vault,
                                admin, amount)} :
          \E o \in {IF admin # staking_pool.admin THEN StakeErr("ConstraintHasOne")
                    ELSE IF BIsZero(amount) THEN StakeErr("InvalidAmount")
                    ELSE IF ~IsSome(b) THEN StakeErr("TokenError")
                    ELSE StakeOutcome("Ok", <<>>, staking_pool, user_stake, Unwrap(b))} :
            /\ staking_pool.init
            /\ StakeCommit("fund_rewards",
                           [admin |-> admin, amount |-> amount,
                            current_time |-> current_time,
                            admin_reward_account |-> admin_reward_account],
                           o, current_time)

(***************************************************************************)
(* The exhaustive specification: every instruction with every small        *)
(* argument, from users holding InitBal of each asset.                     *)
(***************************************************************************)
Fees == {0, 10001}
Amounts == {BN(n) : n \in 0 .. MaxAmount}
MinAmounts == {BN(n) : n \in 0 .. MaxMin}

Init == InitWith(BN(InitBal))

Next ==
    \/ InitializeAmm(Fees) /\ UNCHANGED steps
    \/ DepositLiquidity(Amounts, MinAmounts) /\ UNCHANGED steps
    \/ WithdrawLiquidity(Amounts, MinAmounts) /\ UNCHANGED steps
    \/ SwapTokens(Amounts, MinAmounts) /\ UNCHANGED steps

Spec == Init /\ [][Next]_vars

(***************************************************************************)
(* The scenario specification: up to MaxSteps instructions with the        *)
(* amounts of the documented scenarios and the smallest amount, 1, at the  *)
(* documented fee.                                                         *)
(***************************************************************************)
ScenarioFees == {30}
ScenarioAmounts == {BN(0), BN(1), BN(100), BN(1000), BN(4000)}
ScenarioMins == {BN(0)}

Tick == steps < MaxSteps /\ steps' = steps + 1

ScenarioInit == InitWith(BN(ScenarioBal))

ScenarioNext ==
    \/ Tick /\ InitializeAmm(ScenarioFees)
    \/ Tick /\ DepositLiquidity(ScenarioAmounts, ScenarioMins)
    \/ Tick /\ WithdrawLiquidity(ScenarioAmounts, ScenarioMins)
    \/ Tick /\ SwapTokens(ScenarioAmounts, ScenarioMins)

ScenarioSpec == ScenarioInit /\ [][ScenarioNext]_vars

(***************************************************************************)
(* The wide specification: up to MaxSteps instructions with the amounts    *)
(* where f64 and u64 arithmetic round or overflow: 49 (49 * (1/49) < 1 in  *)
(* f64), amounts around 2^27 (products pass the 53 bits of an f64) and     *)
(* 2^63 (products pass a u64).                                             *)
(***************************************************************************)
WideFees == {0}
WideAmounts ==
    {BN(0), BN(1), BN(2), BN(49), BN(134217727), BN(134217728), BN(134217729), BN(134217730),
     BShl(BOne, 63)}
WideMins == {BN(0), BShl(BOne, 63)}

WideInit == InitWith(BAdd(BShl(BOne, 63), BShl(BOne, 29)))

WideNext ==
    \/ Tick /\ InitializeAmm(WideFees)
    \/ Tick /\ DepositLiquidity(WideAmounts, WideMins)
    \/ Tick /\ WithdrawLiquidity(WideAmounts, WideMins)
    \/ Tick /\ SwapTokens(WideAmounts, WideMins)

WideSpec == WideInit /\ [][WideNext]_vars

(***************************************************************************)
(* The staking specification: up to MaxStakeSteps staking instructions by  *)
(* two users holding StakeBal stake tokens and an admin holding RewardBal  *)
(* reward tokens, at the reward rates 10 and 10^9 per second.              *)
(***************************************************************************)
StakeBal == 200
RewardBal == 200
MaxStakeSteps == 4

StakeRates == {BN(0), BN(10), Precision}
StakeCooldowns == {I64Of(-1), I64Of(0), I64Of(1)}
StakeAmounts == {BN(0), BN(100)}
StakeDts == {0, 10}

StakeTick == steps < MaxStakeSteps /\ steps' = steps + 1

StakingInit ==
    /\ AmmInitWith(<<>>)
    /\ MarketInitWith(0)
    /\ EscrowInitWith(<<>>)
    /\ StakingInitWith(BN(StakeBal), BN(RewardBal))
    /\ last = Result("none", "Ok", <<>>, <<>>)
    /\ steps = 0

StakingNext ==
    \/ StakeTick /\ InitializeStakingPool(StakeRates, StakeCooldowns, StakeDts)
    \/ StakeTick /\ StakeTokens(StakeAmounts, StakeDts)
    \/ StakeTick /\ AddStake(StakeAmounts, StakeDts)
    \/ StakeTick /\ UnstakeTokens(StakeAmounts, StakeDts)
    \/ StakeTick /\ ClaimRewards(StakeDts)
    \/ StakeTick /\ FundRewards(StakeAmounts, StakeDts)

StakingSpec == StakingInit /\ [][StakingNext]_vars

(***************************************************************************)
(* The wide staking specification: up to MaxStakeSteps staking             *)
(* instructions at the reward rate 2^63, with stakes of 1 and 2^31 tokens, *)
(* where amount * accumulated_reward_per_share / 10^9 passes a u64.        *)
(***************************************************************************)
WideStakeRates == {BShl(BOne, 63)}
WideStakeCooldowns == {I64Of(1)}
WideStakeAmounts == {BN(1), BShl(BOne, 31)}
WideStakeDts == {0, 1}

WideStakingInit ==
    /\ AmmInitWith(<<>>)
    /\ MarketInitWith(0)
    /\ EscrowInitWith(<<>>)
    /\ StakingInitWith(BShl(BOne, 32), BShl(BOne, 32))
    /\ last = Result("none", "Ok", <<>>, <<>>)
    /\ steps = 0

WideStakingNext ==
    \/ StakeTick /\ InitializeStakingPool(WideStakeRates, WideStakeCooldowns, WideStakeDts)
    \/ StakeTick /\ StakeTokens(WideStakeAmounts, WideStakeDts)
    \/ StakeTick /\ AddStake(WideStakeAmounts, WideStakeDts)
    \/ StakeTick /\ UnstakeTokens(WideStakeAmounts, WideStakeDts)
    \/ StakeTick /\ ClaimRewards(WideStakeDts)
    \/ StakeTick /\ FundRewards(WideStakeAmounts, WideStakeDts)

WideStakingSpec == WideStakingInit /\ [][WideStakingNext]_vars

(***************************************************************************)
(* The limit staking specification: up to MaxStakeSteps staking            *)
(* instructions at the largest reward rate, with a cooldown of one day     *)
(* (86400 s) or of i64::MAX seconds, stakes of 1 token and a clock that    *)
(* advances by 0 or 1 second.                                              *)
(***************************************************************************)
LimitStakeRates == {U64Max}
LimitStakeCooldowns == {I64Of(86400), I64Max}
LimitStakeAmounts == {BN(1)}
LimitStakeDts == {0, 1}

LimitStakingInit ==
    /\ AmmInitWith(<<>>)
    /\ MarketInitWith(0)
    /\ EscrowInitWith(<<>>)
    /\ StakingInitWith(BN(StakeBal), BN(RewardBal))
    /\ last = Result("none", "Ok", <<>>, <<>>)
    /\ steps = 0

LimitStakingNext ==
    \/ StakeTick /\ InitializeStakingPool(LimitStakeRates, LimitStakeCooldowns, LimitStakeDts)
    \/ StakeTick /\ StakeTokens(LimitStakeAmounts, LimitStakeDts)
    \/ StakeTick /\ AddStake(LimitStakeAmounts, LimitStakeDts)
    \/ StakeTick /\ UnstakeTokens(LimitStakeAmounts, LimitStakeDts)
    \/ StakeTick /\ ClaimRewards(LimitStakeDts)
    \/ StakeTick /\ FundRewards(LimitStakeAmounts, LimitStakeDts)

LimitStakingSpec == LimitStakingInit /\ [][LimitStakingNext]_vars

(***************************************************************************)
(* The marketplace program.  Lamports, prices and fees are small here, so  *)
(* they are integers: the fee is computed in u128 and no sum of balances   *)
(* leaves the u64 range.  The rent of the accounts is not represented.     *)
(***************************************************************************)
MaxMarketFee == 10000                  \* fee <= 10000
MaxNameLen == 32                       \* name.len() <= 32
MaxSeedLen == 32                       \* the longest seed a program address takes
FeeBasis == 10000                      \* checked_div(10000)
RewardAmount == 10000000               \* 10_000_000u64

\* a name of n bytes
NameOfLen(n) == [i \in 1 .. n |-> 109]

\* what a marketplace instruction leaves
MarketOutcome(res, out, m, ls, v, a, lam, rw) ==
    [res |-> res, out |-> out, marketplace |-> m, listing |-> ls, vault |-> v, ata |-> a,
     lamports |-> lam, rewards |-> rw]

\* an instruction that returns an error: the transaction is rolled back
MarketErr(res) ==
    MarketOutcome(res, <<>>, marketplace, listing, vault, ata, lamports, rewards)

MarketCommit(op, args, o) ==
    /\ marketplace' = o.marketplace
    /\ listing' = o.listing
    /\ vault' = o.vault
    /\ ata' = o.ata
    /\ lamports' = o.lamports
    /\ rewards' = o.rewards
    /\ fees_collected' = IF op = "purchase" /\ o.res = "Ok"
                         THEN fees_collected + o.out.fee_amount ELSE fees_collected
    /\ fees_withdrawn' = IF op = "withdraw_fees" /\ o.res = "Ok"
                         THEN fees_withdrawn + args.amount ELSE fees_withdrawn
    /\ last' = Result(op, o.res, args, o.out)
    /\ UNCHANGED <<ammVars, stakingVars, escrowVars>>

\* system_program::transfer: None when the payer holds less
SystemTransfer(lam, from, to, amount) ==
    IF lam[from] < amount THEN None
    ELSE IF from = to THEN Some(lam)
    ELSE Some([lam EXCEPT ![from] = @ - amount, ![to] = @ + amount])

\* a listing account and a vault that are closed
ClosedListing(mint) == [init |-> FALSE, maker |-> "", maker_mint |-> mint, price |-> 0]
ClosedVault == [init |-> FALSE, amount |-> 0]

(***************************************************************************)
(* initialize                                                              *)
(***************************************************************************)
Initialize(Names, Fs) ==
    \E admin \in MarketUsers, name \in Names, fee \in Fs :
      \E o \in {IF Len(name) > MaxSeedLen
                THEN MarketErr("MaxSeedLengthExceeded")  \* seeds = [.., name]
                ELSE IF fee > MaxMarketFee THEN MarketErr("InvalidFee")
                ELSE IF Len(name) = 0 \/ Len(name) > MaxNameLen
                THEN MarketErr("InvalidName")
                ELSE MarketOutcome("Ok", <<>>,
                                   [init |-> TRUE, admin |-> admin, fee |-> fee,
                                    name |-> name],
                                   listing, vault, ata, lamports, rewards)} :
        /\ ~marketplace.init         \* #[account(init)]: no marketplace of that name yet
        /\ MarketCommit("initialize", [admin |-> admin, name |-> name, fee |-> fee], o)

(***************************************************************************)
(* listing                                                                 *)
(***************************************************************************)
List(Prices) ==
    \E maker \in MarketUsers, maker_mint \in NftMints, price \in Prices :
      \E o \in {IF vault[maker_mint].init \/ listing[maker_mint].init
                THEN MarketErr("AccountAlreadyInUse")   \* init of vault, listing
                ELSE IF ata[<<maker, maker_mint>>] # 1 THEN MarketErr("InsufficientTokens")
                ELSE IF price = 0 THEN MarketErr("InvalidPrice")
                ELSE MarketOutcome("Ok", <<>>, marketplace,
                         [listing EXCEPT ![maker_mint] =
                             [init |-> TRUE, maker |-> maker, maker_mint |-> maker_mint,
                              price |-> price]],
                         [vault EXCEPT ![maker_mint] = [init |-> TRUE, amount |-> 1]],
                         [ata EXCEPT ![<<maker, maker_mint>>] = @ - 1],
                         lamports, rewards)} :
        /\ marketplace.init
        /\ MarketCommit("listing",
                        [maker |-> maker, maker_mint |-> maker_mint, price |-> price], o)

(***************************************************************************)
(* delist                                                                  *)
(***************************************************************************)
\* delist without the constraint maker.key() == listing.maker
DelistAnySigner ==
    \E maker \in MarketUsers, maker_mint \in NftMints :
      \E o \in {IF ~vault[maker_mint].init \/ ~listing[maker_mint].init
                THEN MarketErr("AccountNotInitialized")
                ELSE IF vault[maker_mint].amount # 1 THEN MarketErr("EmptyVault")
                ELSE MarketOutcome("Ok", <<>>, marketplace,
                         [listing EXCEPT ![maker_mint] = ClosedListing(maker_mint)],
                         [vault EXCEPT ![maker_mint] = ClosedVault],
                         [ata EXCEPT ![<<maker, maker_mint>>] = @ + 1],
                         lamports, rewards)} :
        /\ marketplace.init
        /\ MarketCommit("delist", [maker |-> maker, maker_mint |-> maker_mint], o)

Delist ==
    \E maker \in MarketUsers, maker_mint \in NftMints :
      \E o \in {IF ~vault[maker_mint].init \/ ~listing[maker_mint].init
                THEN MarketErr("AccountNotInitialized")
                ELSE IF maker # listing[maker_mint].maker THEN MarketErr("Unauthorized")
                ELSE IF vault[maker_mint].amount # 1 THEN MarketErr("EmptyVault")
                ELSE MarketOutcome("Ok", <<>>, marketplace,
                         [listing EXCEPT ![maker_mint] = ClosedListing(maker_mint)],
                         [vault EXCEPT ![maker_mint] = ClosedVault],
                         [ata EXCEPT ![<<maker, maker_mint>>] = @ + 1],
                         lamports, rewards)} :
        /\ marketplace.init
        /\ MarketCommit("delist", [maker |-> maker, maker_mint |-> maker_mint], o)

(***************************************************************************)
(* purchase                                                                *)
(***************************************************************************)
\* send_sol with a fee that is rounded up
FeeAmountRoundedUp(price, fee) == (price * fee + FeeBasis - 1) \div FeeBasis

\* send_sol: fee_amount
FeeAmount(price, fee) == (price * fee) \div FeeBasis

\* send_sol: the fee to the treasury when it is not 0, then the rest to the maker
SendSol(lam, taker, maker, fee_amount, maker_amount) ==
    LET t1 == IF fee_amount > 0 THEN SystemTransfer(lam, taker, Treasury, fee_amount)
              ELSE Some(lam)
    IN  IF IsSome(t1) THEN SystemTransfer(Unwrap(t1), taker, maker, maker_amount) ELSE None

\* purchase without close = maker on the listing
PurchaseSettleKeepsListing(taker, maker_mint) ==
    LET price        == listing[maker_mint].price
        fee_amount   == FeeAmount(price, marketplace.fee)
        maker_amount == price - fee_amount
        paid         == SendSol(lamports, taker, listing[maker_mint].maker, fee_amount,
                                maker_amount)
    IN  IF maker_amount < 0 THEN MarketErr("Panic")
        ELSE IF ~IsSome(paid) THEN MarketErr("SystemError")
        ELSE MarketOutcome("Ok",
                 [price |-> price, fee_amount |-> fee_amount, maker_amount |-> maker_amount,
                  maker |-> listing[maker_mint].maker],
                 marketplace, listing,
                 [vault EXCEPT ![maker_mint] = ClosedVault],
                 [ata EXCEPT ![<<taker, maker_mint>>] = @ + 1],
                 Unwrap(paid),
                 [rewards EXCEPT ![taker] = @ + RewardAmount])

PurchaseSettle(taker, maker_mint) ==
    LET price        == listing[maker_mint].price
        fee_amount   == FeeAmount(price, marketplace.fee)
        maker_amount == price - fee_amount
        paid         == SendSol(lamports, taker, listing[maker_mint].maker, fee_amount,
                                maker_amount)
    IN  IF maker_amount < 0 THEN MarketErr("Panic")
        ELSE IF ~IsSome(paid) THEN MarketErr("SystemError")
        ELSE MarketOutcome("Ok",
                 [price |-> price, fee_amount |-> fee_amount, maker_amount |-> maker_amount,
                  maker |-> listing[maker_mint].maker],
                 marketplace,
                 [listing EXCEPT ![maker_mint] = ClosedListing(maker_mint)],
                 [vault EXCEPT ![maker_mint] = ClosedVault],
                 [ata EXCEPT ![<<taker, maker_mint>>] = @ + 1],
                 Unwrap(paid),
                 [rewards EXCEPT ![taker] = @ + RewardAmount])

Purchase ==
    \E taker \in MarketUsers, maker \in MarketUsers, maker_mint \in NftMints :
      \E o \in {IF ~vault[maker_mint].init \/ ~listing[maker_mint].init
                THEN MarketErr("AccountNotInitialized")
                ELSE IF maker # listing[maker_mint].maker THEN MarketErr("InvalidMaker")
                ELSE IF vault[maker_mint].amount # 1 THEN MarketErr("EmptyVault")
                ELSE PurchaseSettle(taker, maker_mint)} :
        /\ marketplace.init
        /\ MarketCommit("purchase",
                        [taker |-> taker, maker |-> maker, maker_mint |-> maker_mint], o)

(***************************************************************************)
(* update_marketplace                                                      *)
(***************************************************************************)
UpdateMarketplace(NewFees) ==
    \E admin \in MarketUsers, new_fee \in NewFees :
      \E o \in {IF admin # marketplace.admin THEN MarketErr("Unauthorized")
                ELSE IF IsSome(new_fee) /\ Unwrap(new_fee) > MaxMarketFee
                THEN MarketErr("InvalidFee")
                ELSE MarketOutcome("Ok", <<>>,
                         IF IsSome(new_fee)
                         THEN [marketplace EXCEPT !.fee = Unwrap(new_fee)]
                         ELSE marketplace,
                         listing, vault, ata, lamports, rewards)} :
        /\ marketplace.init
        /\ MarketCommit("update_marketplace", [admin |-> admin, new_fee |-> new_fee], o)

(***************************************************************************)
(* withdraw_fees                                                           *)
(***************************************************************************)
\* withdraw_fees without the constraint admin.key() == marketplace.admin
WithdrawFeesAnySigner(Amts) ==
    \E admin \in MarketUsers, amount \in Amts :
      \E o \in {IF amount > lamports[Treasury] THEN MarketErr("InsufficientFunds")
                ELSE MarketOutcome("Ok", <<>>, marketplace, listing, vault, ata,
                                   Unwrap(SystemTransfer(lamports, Treasury, admin, amount)),
                                   rewards)} :
        /\ marketplace.init
        /\ MarketCommit("withdraw_fees", [admin |-> admin, amount |-> amount], o)

WithdrawFees(Amts) ==
    \E admin \in MarketUsers, amount \in Amts :
      \E o \in {IF admin # marketplace.admin THEN MarketErr("Unauthorized")
                ELSE IF amount > lamports[Treasury] THEN MarketErr("InsufficientFunds")
                ELSE MarketOutcome("Ok", <<>>, marketplace, listing, vault, ata,
                                   Unwrap(SystemTransfer(lamports, Treasury, admin, amount)),
                                   rewards)} :
        /\ marketplace.init
        /\ MarketCommit("withdraw_fees", [admin |-> admin, amount |-> amount], o)

(***************************************************************************)
(* The marketplace specification: up to MaxMarketSteps instructions by two *)
(* wallets holding MarketBal lamports and one NFT each.                    *)
(***************************************************************************)
MarketBal == 2000
MaxMarketSteps == 5

MarketNames == {NameOfLen(0), NameOfLen(1), NameOfLen(32), NameOfLen(33)}
MarketFees == {250, 10000, 10001}
MarketPrices == {0, 399, 1000}
MarketNewFees == {None, Some(0), Some(10001)}
MarketAmounts == {0, 9, 26}

MarketTick == steps < MaxMarketSteps /\ steps' = steps + 1

MarketInit ==
    /\ AmmInitWith(<<>>)
    /\ StakingInitWith(<<>>, <<>>)
    /\ MarketInitWith(MarketBal)
    /\ EscrowInitWith(<<>>)
    /\ last = Result("none", "Ok", <<>>, <<>>)
    /\ steps = 0

MarketNext ==
    \/ MarketTick /\ Initialize(MarketNames, MarketFees)
    \/ MarketTick /\ List(MarketPrices)
    \/ MarketTick /\ Delist
    \/ MarketTick /\ Purchase
    \/ MarketTick /\ UpdateMarketplace(MarketNewFees)
    \/ MarketTick /\ WithdrawFees(MarketAmounts)

MarketSpec == MarketInit /\ [][MarketNext]_vars

(***************************************************************************)
(* The token escrow of turbin3-rust.  Every maker has one EscrowState PDA   *)
(* (seeds escrow, maker) and one token account of it (seeds escrow_vault,   *)
(* escrow).  The token accounts a caller passes are any that exist.         *)
(***************************************************************************)
escrow_token_account(maker) == <<EscrowKey(maker), escrow_vault[maker].mint>>

\* the token accounts that exist
EscrowTokenAccounts ==
    {acc \in EscrowAccounts :
        \/ Owner(acc) \in EscrowWallets
        \/ \E u \in EscrowUsers : escrow_vault[u].init /\ acc = escrow_token_account(u)}

ClosedEscrow(maker) ==
    [init |-> FALSE, maker |-> maker, mint_a |-> "A", mint_b |-> "B",
     amount_a |-> <<>>, amount_b |-> <<>>]

\* what an escrow instruction leaves
EscrowOutcome(res, out, e, v, b) ==
    [res |-> res, out |-> out, escrow |-> e, escrow_vault |-> v, escrow_bal |-> b]

\* an instruction that returns an error: the transaction is rolled back
EscrowErr(res) == EscrowOutcome(res, <<>>, escrow, escrow_vault, escrow_bal)

EscrowCommit(op, args, o) ==
    /\ escrow' = o.escrow
    /\ escrow_vault' = o.escrow_vault
    /\ escrow_bal' = o.escrow_bal
    /\ last' = Result(op, o.res, args, o.out)
    /\ UNCHANGED <<ammVars, stakingVars, marketVars>>

(***************************************************************************)
(* initialize_escrow                                                       *)
(***************************************************************************)
InitializeEscrow(Amts) ==
    \E maker \in EscrowUsers, amount \in Amts, receive_amount \in Amts :
      \E o \in {IF escrow[maker].init \/ escrow_vault[maker].init
                THEN EscrowErr("AccountAlreadyInUse")   \* init of escrow, escrow_token_account
                ELSE IF BIsZero(amount) \/ BIsZero(receive_amount)
                THEN EscrowErr("InvalidAmount")
                ELSE LET moved == TokenTransfer(escrow_bal, <<maker, "A">>,
                                                <<EscrowKey(maker), "A">>, maker, amount)
                     IN  IF ~IsSome(moved) THEN EscrowErr("TokenError")
                         ELSE EscrowOutcome("Ok", <<>>,
                                  [escrow EXCEPT ![maker] =
                                      [init |-> TRUE, maker |-> maker, mint_a |-> "A",
                                       mint_b |-> "B", amount_a |-> amount,
                                       amount_b |-> receive_amount]],
                                  [escrow_vault EXCEPT ![maker] =
                                      [init |-> TRUE, mint |-> "A"]],
                                  Unwrap(moved))} :
        EscrowCommit("initialize_escrow",
                     [maker |-> maker, amount |-> amount, receive_amount |-> receive_amount],
                     o)

(***************************************************************************)
(* cancel_escrow                                                           *)
(***************************************************************************)
CancelEscrow(Passed) ==
    \E maker \in EscrowUsers, maker_token_account \in Passed \cap EscrowTokenAccounts :
      \E o \in {IF ~escrow[maker].init THEN EscrowErr("AccountNotInitialized")
                ELSE LET balance == escrow_bal[escrow_token_account(maker)]
                         moved   == TokenTransfer(escrow_bal, escrow_token_account(maker),
                                                  maker_token_account, EscrowKey(maker),
                                                  balance)
                     IN  IF ~IsSome(moved) THEN EscrowErr("TokenError")
                         ELSE EscrowOutcome("Ok", [balance |-> balance],
                                  [escrow EXCEPT ![maker] = ClosedEscrow(maker)],
                                  escrow_vault, Unwrap(moved))} :
        EscrowCommit("cancel_escrow",
                     [maker |-> maker, maker_token_account |-> maker_token_account], o)

(***************************************************************************)
(* exchange_escrow                                                         *)
(***************************************************************************)
ExchangeSettle(taker, maker, maker_receive_token_account, taker_token_account, taker_receive_token_account) ==
    LET escrow_token_balance == escrow_bal[escrow_token_account(maker)]
        taker_token_balance  == escrow_bal[taker_token_account]
        to_taker == TokenTransfer(escrow_bal, escrow_token_account(maker),
                                  taker_receive_token_account, EscrowKey(maker),
                                  escrow_token_balance)
        to_maker == IF IsSome(to_taker)
                    THEN TokenTransfer(Unwrap(to_taker), taker_token_account,
                                       maker_receive_token_account, taker,
                                       escrow[maker].amount_b)
                    ELSE None
    IN  IF BLt(taker_token_balance, escrow[maker].amount_b)
        THEN EscrowErr("InsufficientFunds")
        ELSE IF ~IsSome(to_maker) THEN EscrowErr("TokenError")
        ELSE EscrowOutcome("Ok",
                 [escrow_token_balance |-> escrow_token_balance,
                  amount_b |-> escrow[maker].amount_b],
                 [escrow EXCEPT ![maker] = ClosedEscrow(maker)],
                 escrow_vault, Unwrap(to_maker))

ExchangeEscrow(Passed) ==
    \E taker \in EscrowUsers, maker \in EscrowUsers, p \in Passed :
      \E maker_receive_token_account \in {p[1]} \cap EscrowTokenAccounts,
         taker_token_account \in {p[2]} \cap EscrowTokenAccounts,
         taker_receive_token_account \in {p[3]} \cap EscrowTokenAccounts :
        \E o \in {IF ~escrow[maker].init THEN EscrowErr("AccountNotInitialized")
                  ELSE ExchangeSettle(taker, maker, maker_receive_token_account,
                                      taker_token_account, taker_receive_token_account)} :
          EscrowCommit("exchange_escrow",
                       [taker |-> taker, maker |-> maker,
                        maker_receive_token_account |-> maker_receive_token_account,
                        taker_token_account |-> taker_token_account,
                        taker_receive_token_account |-> taker_receive_token_account], o)

(***************************************************************************)
(* The escrow specification: up to MaxEscrowSteps instructions by two      *)
(* users holding EscrowBal of each mint.  The token accounts passed to     *)
(* exchange_escrow are: any account of a user to receive for the maker,    *)
(* any account of a user to pay from, and an account of that user or of    *)
(* the third wallet to receive in; to cancel_escrow, any account of a      *)
(* wallet.                                                                 *)
(***************************************************************************)
EscrowBal == 10
MaxEscrowSteps == 3

EscrowAmounts == {BN(0), BN(4), BN(11)}
UserTokenAccounts == EscrowUsers \X EscrowMints
ExchangeAccounts ==
    {p \in UserTokenAccounts \X UserTokenAccounts \X (EscrowWallets \X EscrowMints) :
        Owner(p[3]) \in {Owner(p[2]), "e3"}}

EscrowTick == steps < MaxEscrowSteps /\ steps' = steps + 1

EscrowInit ==
    /\ AmmInitWith(<<>>)
    /\ StakingInitWith(<<>>, <<>>)
    /\ MarketInitWith(0)
    /\ EscrowInitWith(BN(EscrowBal))
    /\ last = Result("none", "Ok", <<>>, <<>>)
    /\ steps = 0

EscrowNext ==
    \/ EscrowTick /\ InitializeEscrow(EscrowAmounts)
    \/ EscrowTick /\ CancelEscrow(EscrowWallets \X EscrowMints)
    \/ EscrowTick /\ ExchangeEscrow(ExchangeAccounts)

EscrowSpec == EscrowInit /\ [][EscrowNext]_vars

(***************************************************************************)
(* The amounts as the specification states them: exact integer floors.     *)
(***************************************************************************)
OtherMint(m) == IF m = "A" THEN "B" ELSE "A"

\* floor(amount_in * (10000 - fee_bps) / 10000)
ExactAmountInAfterFee(amount_in, fee) ==
    BDivMod(BMul(amount_in, BN(FeeDenominator - fee)), BN(FeeDenominator))[1]

\* floor(reserve_out * amount_in_after_fee / (reserve_in + amount_in_after_fee))
ExactAmountOut(reserve_in, reserve_out, amount_in_after_fee) ==
    BDivMod(BMul(reserve_out, amount_in_after_fee), BAdd(reserve_in, amount_in_after_fee))[1]

\* floor(sqrt(amount_a * amount_b))
ExactInitialLp(amount_a, amount_b) == BSqrt(BMul(amount_a, amount_b))

\* floor(supply * amount / reserve)
ExactShare(supply, amount, reserve) == BDivMod(BMul(supply, amount), reserve)[1]

\* floor(supply * min(amount_a / reserve_a, amount_b / reserve_b))
ExactSubsequentLp(supply, reserve_a, reserve_b, amount_a, amount_b) ==
    LET sa == ExactShare(supply, amount_a, reserve_a)
        sb == ExactShare(supply, amount_b, reserve_b)
    IN  IF BLe(sa, sb) THEN sa ELSE sb

\* the last instruction was op and succeeded
Succeeded(l, op) == l.op = op /\ l.res = "Ok"

\* a swap whose accounts are the pool's own vaults, paying in asset m
PoolVaultSwap(l, m) ==
    /\ l.op = "swap_tokens"
    /\ l.args.accounts.user_token_in[2] = m
    /\ l.args.accounts.vault_token_in = <<Pool, m>>
    /\ l.args.accounts.vault_token_out = <<Pool, OtherMint(m)>>

C2_SupplyReserveCoupling ==
    /\ BIsZero(lp_supply) <=> (BIsZero(Reserve("A")) /\ BIsZero(Reserve("B")))
    /\ ~BIsZero(lp_supply) => (~BIsZero(Reserve("A")) /\ ~BIsZero(Reserve("B")))

\* C2, reached: a swap through the pool's vaults on the empty pool has left
\* reserves (1, 0) with no supply
C2_ReserveWithoutSupply ==
    /\ Succeeded(last, "swap_tokens")
    /\ PoolVaultSwap(last, "A")
    /\ BIsZero(lp_supply)
    /\ Reserve("A") = BN(1)
    /\ BIsZero(Reserve("B"))

\* the reserves move by a swap's amounts: in by amount_in, out by amount_out
SwapMovesReserves(l, m_in, in_before, in_after, out_before, out_after) ==
    /\ in_after = BAdd(in_before, l.args.amount_in)
    /\ BLe(Unwrap(l.out), out_before)
    /\ BAdd(out_after, Unwrap(l.out)) = out_before

\* C3: a successful swap increases the reserve vault of the input asset by
\* exactly amount_in and decreases the reserve vault of the other asset by
\* exactly amount_out, whatever token accounts the caller supplies.
C3_SwapMovesReserves ==
    [][Succeeded(last', "swap_tokens")
        => \E m \in {last'.args.accounts.user_token_in[2]} :
             SwapMovesReserves(last', m, Reserve(m), Reserve(m)',
                               Reserve(OtherMint(m)), Reserve(OtherMint(m))')]_vars

\* C3, reached: a successful swap has paid amount_in to an account that is
\* not the pool's vault
C3_PaidOutsideVault ==
    /\ Succeeded(last, "swap_tokens")
    /\ last.args.accounts.vault_token_in = <<"x", "A">>
    /\ ~BIsZero(last.args.amount_in)
    /\ bal[<<"x", "A">>] = last.args.amount_in

\* the swap l quotes the stated amounts from the reserves before it
SwapQuoteAsStated(l, fee, reserve_in, reserve_out) ==
    LET a   == ExactAmountInAfterFee(l.args.amount_in, fee)
        out == ExactAmountOut(reserve_in, reserve_out, a)
    IN  BIsZero(BAdd(reserve_in, a))
        \/ /\ l.out = Some(out)
           /\ l.res = "SlippageExceeded" <=> BLt(out, l.args.min_amount_out)

\* C4: for every pool state and every amount_in > 0, swap_tokens computes
\* amount_in_after_fee = floor(amount_in * (10000 - fee) / 10000) and
\* amount_out = floor(reserve_out * amount_in_after_fee / (reserve_in +
\* amount_in_after_fee)), and fails with SlippageExceeded exactly when
\* amount_out < min_amount_out.
C4_SwapQuote ==
    [][(last'.op = "swap_tokens" /\ ~BIsZero(last'.args.amount_in))
        => \E m \in {last'.args.accounts.user_token_in[2]} :
             SwapQuoteAsStated(last', amm.fee, Reserve(m), Reserve(OtherMint(m)))]_vars

\* C4, reached: a swap of 2^63 through the vaults of a funded pool has
\* aborted on an unwrap() instead of quoting
C4_QuoteOverflow ==
    /\ last.op = "swap_tokens"
    /\ last.res = "Panic"
    /\ PoolVaultSwap(last, "A")
    /\ last.args.amount_in = BShl(BOne, 63)
    /\ ~BIsZero(Reserve("A"))
    /\ ~BIsZero(Reserve("B"))

\* Scenario B: reserves (1000, 4000), fee 30, Swap(100, asset_a, 0) through
\* the pool's vaults
ScenarioB(l) ==
    /\ Succeeded(l, "swap_tokens")
    /\ PoolVaultSwap(l, "A")
    /\ l.args.amount_in = BN(100)
    /\ l.args.min_amount_out = BN(0)
    /\ amm.fee = 30
    /\ Reserve("A") = BN(1000)
    /\ Reserve("B") = BN(4000)

\* C5 as stated: Scenario B yields amount_in_after_fee = 997 and
\* amount_out = 1997, and the reserves become (1100, 2003).
C5_ScenarioB_AsStated ==
    [][ScenarioB(last')
        => /\ AmountInWithFee(BN(100), 30) = Some(BN(997))
           /\ last'.out = Some(BN(1997))
           /\ Reserve("A")' = BN(1100)
           /\ Reserve("B")' = BN(2003)]_vars

\* C5, amended: Scenario B yields amount_in_after_fee = floor(100*9970/10000)
\* = 99 and amount_out = floor(4000*99/1099) = 360, and the reserves become
\* (1100, 3640).
C5_ScenarioB ==
    [][ScenarioB(last')
        => /\ AmountInWithFee(BN(100), 30) = Some(BN(99))
           /\ last'.out = Some(BN(360))
           /\ Reserve("A")' = BN(1100)
           /\ Reserve("B")' = BN(3640)]_vars

\* C5, reached: the swap of Scenario B has run from reserves (1000, 4000)
C5_ScenarioB_Reached ==
    /\ Succeeded(last, "swap_tokens")
    /\ PoolVaultSwap(last, "A")
    /\ last.args.amount_in = BN(100)
    /\ last.args.min_amount_out = BN(0)
    /\ amm.fee = 30
    /\ Reserve("A") = BN(1100)
    /\ BAdd(Reserve("B"), Unwrap(last.out)) = BN(4000)

\* the reserves grow by the two amounts of the deposit l
DepositMovesReserves(l, a_before, a_after, b_before, b_after) ==
    /\ a_after = BAdd(a_before, l.args.amount_a)
    /\ b_after = BAdd(b_before, l.args.amount_b)

\* C6: when the supply is zero, a deposit with both amounts positive mints
\* exactly floor(sqrt(amount_a * amount_b)) liquidity tokens and the reserves
\* increase by (amount_a, amount_b).
C6_InitialDeposit ==
    [][(Succeeded(last', "deposit_liquidity") /\ BIsZero(lp_supply))
        => /\ last'.out = Some(ExactInitialLp(last'.args.amount_a, last'.args.amount_b))
           /\ lp_supply' = Unwrap(last'.out)
           /\ DepositMovesReserves(last', Reserve("A"), Reserve("A")',
                                   Reserve("B"), Reserve("B")')]_vars

\* C6, reached: the first deposit, of (2^27 - 1, 2^27 + 1), has minted 2^27
C6_InitialDepositRoundedUp ==
    /\ Succeeded(last, "deposit_liquidity")
    /\ last.args.amount_a = BN(134217727)
    /\ last.args.amount_b = BN(134217729)
    /\ Reserve("A") = BN(134217727)
    /\ last.out = Some(BN(134217728))
    /\ lp_supply = BN(134217728)

\* C7: when the supply is positive, a deposit mints exactly
\* floor(supply * min(amount_a / reserve_a, amount_b / reserve_b)) liquidity
\* tokens to the caller, the supply grows by that amount, and both reserves
\* grow by the full amounts.
C7_SubsequentDeposit ==
    [][(/\ Succeeded(last', "deposit_liquidity")
        /\ ~BIsZero(lp_supply) /\ ~BIsZero(Reserve("A")) /\ ~BIsZero(Reserve("B")))
        => /\ last'.out = Some(ExactSubsequentLp(lp_supply, Reserve("A"), Reserve("B"),
                                                 last'.args.amount_a, last'.args.amount_b))
           /\ lp_supply' = BAdd(lp_supply, Unwrap(last'.out))
           /\ lp_bal'[last'.args.user] = BAdd(lp_bal[last'.args.user], Unwrap(last'.out))
           /\ DepositMovesReserves(last', Reserve("A"), Reserve("A")',
                                   Reserve("B"), Reserve("B")')]_vars

\* C7, reached: a deposit of (1, 1) into reserves (49, 49) with supply 49
\* has minted nothing
C7_DepositMintedNothing ==
    /\ Succeeded(last, "deposit_liquidity")
    /\ last.args.amount_a = BN(1)
    /\ last.args.amount_b = BN(1)
    /\ last.out = Some(BN(0))
    /\ Reserve("A") = BN(50)
    /\ Reserve("B") = BN(50)
    /\ lp_supply = BN(49)

\* C8: a deposit into a pool with positive supply mints m with
\* m * reserve_a <= supply * amount_a and m * reserve_b <= supply * amount_b.
C8_NoExcessLiquidity ==
    [][(Succeeded(last', "deposit_liquidity") /\ ~BIsZero(lp_supply))
        => /\ BLe(BMul(Unwrap(last'.out), Reserve("A")), BMul(lp_supply, last'.args.amount_a))
           /\ BLe(BMul(Unwrap(last'.out), Reserve("B")), BMul(lp_supply, last'.args.amount_b))]_vars

\* C8, reached: a deposit of (2^27 + 2, 2^27 + 1) into reserves
\* (2^27 + 1, 2^27) with supply 2^27 has minted 2^27 + 1
C8_ExcessLiquidityMinted ==
    /\ Succeeded(last, "deposit_liquidity")
    /\ last.args.amount_a = BN(134217730)
    /\ last.args.amount_b = BN(134217729)
    /\ last.out = Some(BN(134217729))
    /\ Reserve("A") = BN(268435459)
    /\ Reserve("B") = BN(268435457)
    /\ lp_supply = BN(268435457)

\* the withdrawal l pays the stated amounts from the state before it
WithdrawAsStated(l, supply, reserve_a, reserve_b) ==
    LET pa == ExactShare(reserve_a, l.args.lp_amount, supply)
        pb == ExactShare(reserve_b, l.args.lp_amount, supply)
    IN  /\ l.out = <<pa, pb>>
        /\ l.res = "SlippageExceeded"
             <=> (BLt(pa, l.args.min_amount_a) \/ BLt(pb, l.args.min_amount_b))

\* C9: a withdrawal of liquidity_amount > 0 that the caller holds pays exactly
\* floor(reserve * liquidity_amount / supply) of each asset, burns
\* liquidity_amount and decreases each reserve by its payout; it fails with
\* SlippageExceeded exactly when either payout is below its minimum.
C9_Withdraw ==
    [][(/\ last'.op = "withdraw_liquidity"
        /\ ~BIsZero(last'.args.lp_amount)
        /\ BLe(last'.args.lp_amount, lp_bal[last'.args.user]))
        => /\ WithdrawAsStated(last', lp_supply, Reserve("A"), Reserve("B"))
           /\ last'.res = "Ok"
                => /\ BAdd(lp_supply', last'.args.lp_amount) = lp_supply
                   /\ BAdd(Reserve("A")', last'.out[1]) = Reserve("A")
                   /\ BAdd(Reserve("B")', last'.out[2]) = Reserve("B")]_vars

\* C9, reached: a withdrawal of 2^27 - 1 from reserves (2^27 + 1, 2^27) with
\* supply 2^27 has paid 2^27 of asset A
C9_WithdrawOverpaid ==
    /\ Succeeded(last, "withdraw_liquidity")
    /\ last.args.lp_amount = BN(134217727)
    /\ last.out = <<BN(134217728), BN(134217727)>>
    /\ Reserve("A") = BN(1)
    /\ Reserve("B") = BN(1)
    /\ lp_supply = BN(1)

ZeroAmountRequest(l) ==
    \/ l.op = "deposit_liquidity" /\ (BIsZero(l.args.amount_a) \/ BIsZero(l.args.amount_b))
    \/ l.op = "withdraw_liquidity" /\ BIsZero(l.args.lp_amount)
    \/ l.op = "swap_tokens" /\ BIsZero(l.args.amount_in)

C11_ZeroAmountRejected ==
    [][ZeroAmountRequest(last')
        => /\ last'.res = "InvalidAmount"
           /\ bal' = bal
           /\ lp_supply' = lp_supply
           /\ lp_bal' = lp_bal
           /\ amm' = amm]_vars

\* C11, reached: a swap of zero tokens was rejected on a pool that holds reserves
C11_ZeroSwapRejected ==
    /\ last.op = "swap_tokens"
    /\ BIsZero(last.args.amount_in)
    /\ last.res = "InvalidAmount"
    /\ ~BIsZero(Reserve("A"))
    /\ ~BIsZero(Reserve("B"))

PositionOp(l) ==
    /\ l.op \in {"stake_tokens", "add_stake", "unstake_tokens", "claim_rewards"}
    /\ l.res = "Ok"

\* the accumulator after the interval from last_update_time to current_time
CaughtUp(pool, current_time) ==
    IF BIsZero(pool.total_staked) THEN pool.accumulated_reward_per_share
    ELSE BAdd(pool.accumulated_reward_per_share,
              BDivMod(BMul(pool.reward_rate, BN(current_time - pool.last_update_time)),
                      pool.total_staked)[1])

\* the rewards a position has earned at accumulator acc and not yet booked
Unbooked(stake, acc) ==
    IF stake.init
    THEN BSub(BDivMod(BMul(stake.amount, acc), Precision)[1], stake.reward_debt)
    ELSE <<>>

C13_AccumulatorMonotone ==
    [][/\ BLe(staking_pool.accumulated_reward_per_share,
               staking_pool'.accumulated_reward_per_share)
       /\ PositionOp(last')
          => /\ staking_pool'.accumulated_reward_per_share
                   = CaughtUp(staking_pool, last'.args.current_time)
             /\ staking_pool'.last_update_time = last'.args.current_time
             /\ LET stake == user_stake[last'.args.user]
                     acc   == staking_pool'.accumulated_reward_per_share
                     paid  == IF last'.op = "claim_rewards" THEN last'.out.total_rewards
                              ELSE <<>>
                IN  BAdd(user_stake'[last'.args.user].pending_rewards, paid)
                        = BAdd(IF stake.init THEN stake.pending_rewards ELSE <<>>,
                               Unbooked(stake, acc))]_vars

\* C13, reached: an unstake has caught the accumulator up over a non-empty interval
C13_CaughtUpReached ==
    /\ Succeeded(last, "unstake_tokens")
    /\ last.out.time_elapsed > 0
    /\ ~BIsZero(staking_pool.accumulated_reward_per_share)
    /\ ~BIsZero(user_stake[last.args.user].pending_rewards)

(***************************************************************************)
(* C14.  As stated: when total_staked > 0 the reward update adds exactly   *)
(* floor(reward_rate * elapsed * PRECISION / total_staked) to              *)
(* accumulated_reward_per_share, with PRECISION = 1_000_000_000.           *)
(***************************************************************************)
AccrualAsStated(pool, current_time) ==
    BDivMod(BMul(BMul(pool.reward_rate, BN(current_time - pool.last_update_time)),
                 Precision),
            pool.total_staked)[1]

C14_AccrualAsStated ==
    [][PositionOp(last') /\ ~BIsZero(staking_pool.total_staked)
        => staking_pool'.accumulated_reward_per_share
             = BAdd(staking_pool.accumulated_reward_per_share,
                    AccrualAsStated(staking_pool, last'.args.current_time))]_vars

\* C14, reached: 10 seconds at rate 10 over 100 staked tokens have added 1 to the
\* accumulator, where 1_000_000_000 is stated
C14_AccruedUnscaled ==
    /\ Succeeded(last, "add_stake")
    /\ last.out.time_elapsed = 10
    /\ staking_pool.reward_rate = BN(10)
    /\ staking_pool.total_staked = BN(200)
    /\ staking_pool.accumulated_reward_per_share = BN(1)

(***************************************************************************)
(* C15.  Scenario C as stated: at rate 10, with Stake(100) at t = 0 the    *)
(* only position, ClaimRewards at t = 10 raises the accumulator by         *)
(* 1_000_000_000 and pays 100 reward tokens.                               *)
(***************************************************************************)
ScenarioC(u) ==
    /\ staking_pool.init
    /\ staking_pool.reward_rate = BN(10)
    /\ staking_pool.total_staked = BN(100)
    /\ staking_pool.last_update_time = 0
    /\ BIsZero(staking_pool.accumulated_reward_per_share)
    /\ user_stake[u].init
    /\ user_stake[u].amount = BN(100)
    /\ user_stake[u].last_stake_time = 0
    /\ BIsZero(user_stake[u].reward_debt)
    /\ BIsZero(user_stake[u].pending_rewards)
    /\ BLe(BN(100), stake_bal[reward_vault])

C15_ScenarioC ==
    [][\A u \in StakeUsers :
         /\ ScenarioC(u)
         /\ last'.op = "claim_rewards"
         /\ last'.args.user = u
         /\ last'.args.current_time = 10
         /\ last'.args.user_reward_account = <<u, "R">>
         => /\ last'.res = "Ok"
            /\ staking_pool'.accumulated_reward_per_share
                  = BAdd(staking_pool.accumulated_reward_per_share, Precision)
            /\ last'.out.total_rewards = BN(100)
            /\ stake_bal'[<<u, "R">>] = BAdd(stake_bal[<<u, "R">>], BN(100))
            /\ stake_bal'[reward_vault] = BSub(stake_bal[reward_vault], BN(100))]_vars

\* C15, reached: the claim of Scenario C was refused with NoRewardsToClaim on a funded
\* reward vault
C15_ScenarioC_Refused ==
    \E u \in StakeUsers :
        /\ ScenarioC(u)
        /\ now = 10
        /\ last.op = "claim_rewards"
        /\ last.res = "NoRewardsToClaim"
        /\ last.args.user = u
        /\ last.args.current_time = 10

(***************************************************************************)
(* C16.  A reward update that runs with no time elapsed since the last one *)
(* leaves accumulated_reward_per_share unchanged.                          *)
(***************************************************************************)
C16_AccrualIdempotent ==
    [][PositionOp(last') /\ last'.out.time_elapsed = 0
        => staking_pool'.accumulated_reward_per_share
             = staking_pool.accumulated_reward_per_share]_vars

\* C16, reached: a second reward update ran in the same second on a pool that holds
\* stake and has accrued rewards
C16_SameSecondReached ==
    /\ Succeeded(last, "add_stake")
    /\ last.out.time_elapsed = 0
    /\ user_stake[last.args.user].amount = BN(200)
    /\ ~BIsZero(staking_pool.accumulated_reward_per_share)

(***************************************************************************)
(* C17.  Every successful stake, add-stake, unstake and claim sets         *)
(* last_update_time to the current time, also when total_staked is 0; an   *)
(* interval in which nothing was staked adds nothing to the accumulator.   *)
(***************************************************************************)
C17_UpdateTimeAlwaysSet ==
    [][PositionOp(last')
        => /\ staking_pool'.last_update_time = last'.args.current_time
           /\ staking_pool'.last_update_time = now'
           /\ BIsZero(staking_pool.total_staked)
                 => staking_pool'.accumulated_reward_per_share
                      = staking_pool.accumulated_reward_per_share]_vars

\* C17, reached: a stake into the empty pool, some time after the pool's last update
C17_IdleIntervalReached ==
    /\ Succeeded(last, "stake_tokens")
    /\ last.out.time_elapsed > 0
    /\ staking_pool.total_staked = last.args.amount
    /\ staking_pool.last_update_time = now

(***************************************************************************)
(* C18.  As stated: after any successful instruction on a position, its    *)
(* reward_debt equals floor(amount * accumulated_reward_per_share /        *)
(* PRECISION), for the new amount and the just-updated accumulator.        *)
(***************************************************************************)
ExactRewardDebt(stake, pool) ==
    BDivMod(BMul(stake.amount, pool.accumulated_reward_per_share), Precision)[1]

C18_RewardDebtSynced ==
    [][PositionOp(last')
        => user_stake'[last'.args.user].reward_debt
             = ExactRewardDebt(user_stake'[last'.args.user], staking_pool')]_vars

\* C18, reached: a successful instruction has left a reward_debt that is not the floor
C18_RewardDebtTruncated ==
    /\ PositionOp(last)
    /\ user_stake[last.args.user].reward_debt
         # ExactRewardDebt(user_stake[last.args.user], staking_pool)

(***************************************************************************)
(* C19.  As stated: stake and add-stake fail with InvalidAmount when       *)
(* amount is 0; otherwise, after the reward update, an existing position   *)
(* has floor(amount_before * acc / PRECISION) - reward_debt added to       *)
(* pending_rewards, then amount and total_staked grow by the deposit and   *)
(* last_stake_time is the current time.                                    *)
(***************************************************************************)
DepositOp(l) ==
    \/ l.op = "stake_tokens" /\ l.res # "AccountAlreadyInUse"
    \/ l.op = "add_stake" /\ l.args.position = l.args.user

C19_StakeBooksPending ==
    [][DepositOp(last')
        => LET u      == last'.args.user
               before == user_stake[u]
               after  == user_stake'[u]
               acc    == staking_pool'.accumulated_reward_per_share
           IN  IF BIsZero(last'.args.amount)
               THEN /\ last'.res = "InvalidAmount"
                    /\ user_stake' = user_stake
                    /\ staking_pool' = staking_pool
                    /\ stake_bal' = stake_bal
               ELSE last'.res = "Ok"
                    => /\ after.pending_rewards
                            = BAdd(IF before.init THEN before.pending_rewards ELSE <<>>,
                                   Unbooked(before, acc))
                       /\ after.amount
                            = BAdd(IF before.init THEN before.amount ELSE <<>>,
                                   last'.args.amount)
                       /\ staking_pool'.total_staked
                            = BAdd(staking_pool.total_staked, last'.args.amount)
                       /\ after.last_stake_time = last'.args.current_time]_vars

\* C19, reached: an add-stake on a position that had earned 2^64 or more has left
\* pending_rewards at 0
C19_PendingTruncated ==
    /\ Succeeded(last, "add_stake")
    /\ last.out.time_elapsed = 0
    /\ BLt(U64Max, BDivMod(BMul(BSub(user_stake[last.args.user].amount, last.args.amount),
                                 staking_pool.accumulated_reward_per_share),
                            Precision)[1])
    /\ BIsZero(user_stake[last.args.user].pending_rewards)

(***************************************************************************)
(* C20.  Unstake is rejected with InvalidAmount when amount is 0 and with  *)
(* InsufficientFunds when amount exceeds the position's amount, leaving    *)
(* the state unchanged; a successful unstake decreases the position's      *)
(* amount and total_staked by exactly the amount, and neither goes below   *)
(* zero.                                                                   *)
(***************************************************************************)
C20_UnstakeChecked ==
    [][last'.op = "unstake_tokens" /\ last'.args.position = last'.args.user
        => LET u == last'.args.user
               a == last'.args.amount
           IN  /\ BIsZero(a)
                    => /\ last'.res = "InvalidAmount"
                       /\ <<staking_pool', user_stake', stake_bal'>>
                            = <<staking_pool, user_stake, stake_bal>>
               /\ BLt(user_stake[u].amount, a)
                    => /\ last'.res = "InsufficientFunds"
                       /\ <<staking_pool', user_stake', stake_bal'>>
                            = <<staking_pool, user_stake, stake_bal>>
               /\ last'.res = "Ok"
                    => /\ BLe(a, user_stake[u].amount)
                       /\ BLe(a, staking_pool.total_staked)
                       /\ BAdd(user_stake'[u].amount, a) = user_stake[u].amount
                       /\ BAdd(staking_pool'.total_staked, a) = staking_pool.total_staked
                       /\ \A v \in StakeUsers \ {u} : user_stake'[v] = user_stake[v]]_vars

\* C20, reached: a part of a position was unstaked and the rest is still staked
C20_UnstakedReached ==
    /\ Succeeded(last, "unstake_tokens")
    /\ ~BIsZero(user_stake[last.args.user].amount)
    /\ ~BIsZero(staking_pool.total_staked)

(***************************************************************************)
(* C21.  As stated: an unstake of a valid amount earlier than              *)
(* cooldown_period after the position's most recent successful stake or    *)
(* add-stake fails with CooldownNotMet; every stake and add-stake restarts *)
(* the cooldown, unstake and claim do not.                                 *)
(***************************************************************************)
BeforeCooldownEnd(stake, pool, current_time) ==
    BLt(BN(current_time), CooldownEnd(stake, pool))

C21_CooldownEnforced ==
    [][LET u == last'.args.user
       IN  /\ /\ last'.op = "unstake_tokens"
              /\ last'.args.position = u
              /\ ~BIsZero(last'.args.amount)
              /\ BLe(last'.args.amount, user_stake[u].amount)
              /\ BeforeCooldownEnd(user_stake[u], staking_pool, last'.args.current_time)
              => last'.res = "CooldownNotMet"
           /\ Succeeded(last', "stake_tokens") \/ Succeeded(last', "add_stake")
              => user_stake'[u].last_stake_time = last'.args.current_time
           /\ last'.op \in {"unstake_tokens", "claim_rewards"}
              => user_stake'[u].last_stake_time = user_stake[u].last_stake_time]_vars

\* C21, reached: an unstake has succeeded before the end of the position's cooldown
C21_UnstakedBeforeCooldown ==
    /\ Succeeded(last, "unstake_tokens")
    /\ BeforeCooldownEnd(user_stake[last.args.user], staking_pool, now)

\* Scenario D: an unstake 1 second after the stake, with a cooldown of 86400 seconds,
\* was refused with CooldownNotMet
C21_ScenarioD_Refused ==
    /\ last.op = "unstake_tokens"
    /\ last.res = "CooldownNotMet"
    /\ staking_pool.cooldown_period = I64Of(86400)
    /\ now = user_stake[last.args.user].last_stake_time + 1

(***************************************************************************)
(* C22.  As stated: claim_rewards brings the accumulator up to date,       *)
(* computes total = pending_rewards + newly earned reward, fails with      *)
(* NoRewardsToClaim and no state change when total is 0, and otherwise     *)
(* sets pending_rewards to 0, resynchronizes reward_debt, leaves the       *)
(* position's amount and total_staked alone and pays exactly total from    *)
(* the reward vault to the claimant.                                       *)
(***************************************************************************)
\* pending_rewards plus the reward newly earned up to current_time
ClaimTotal(stake, pool, current_time) ==
    BAdd(stake.pending_rewards, Unbooked(stake, CaughtUp(pool, current_time)))

C22_ClaimPaysTotal ==
    [][/\ last'.op = "claim_rewards"
       /\ last'.args.position = last'.args.user
       /\ last'.args.user_reward_account = <<last'.args.user, "R">>
       => LET u     == last'.args.user
              total == ClaimTotal(user_stake[u], staking_pool, last'.args.current_time)
          IN  IF BIsZero(total)
              THEN /\ last'.res = "NoRewardsToClaim"
                   /\ <<staking_pool', user_stake', stake_bal'>>
                        = <<staking_pool, user_stake, stake_bal>>
              ELSE /\ last'.res # "NoRewardsToClaim"
                   /\ last'.res = "Ok"
                        => /\ BIsZero(user_stake'[u].pending_rewards)
                           /\ user_stake'[u].reward_debt
                                = ExactRewardDebt(user_stake'[u], staking_pool')
                           /\ user_stake'[u].amount = user_stake[u].amount
                           /\ staking_pool'.total_staked = staking_pool.total_staked
                           /\ last'.out.total_rewards = total
                           /\ BAdd(stake_bal'[reward_vault], total)
                                = stake_bal[reward_vault]
                           /\ stake_bal'[<<u, "R">>] = BAdd(stake_bal[<<u, "R">>], total)]_vars

\* C22, reached: a claim on a position with rewards to claim was refused with
\* NoRewardsToClaim
C22_ClaimRefusedWithRewards ==
    /\ last.op = "claim_rewards"
    /\ last.res = "NoRewardsToClaim"
    /\ last.args.position = last.args.user
    /\ ~BIsZero(ClaimTotal(user_stake[last.args.user], staking_pool, now))

C24_FundRewardsFrame ==
    [][last'.op = "fund_rewards"
        => /\ last'.res = "Ok" => last'.args.admin = staking_pool.admin
           /\ last'.args.admin = staking_pool.admin /\ BIsZero(last'.args.amount)
                => last'.res = "InvalidAmount"
           /\ last'.res = "Ok"
                => /\ ~BIsZero(last'.args.amount)
                   /\ stake_bal'[reward_vault]
                        = BAdd(stake_bal[reward_vault], last'.args.amount)
                   /\ BAdd(stake_bal'[last'.args.admin_reward_account], last'.args.amount)
                        = stake_bal[last'.args.admin_reward_account]
           /\ last'.res # "Ok" => stake_bal' = stake_bal
           /\ staking_pool' = staking_pool
           /\ user_stake' = user_stake]_vars

\* C24, reached: the administrator has funded the reward vault of a pool that holds stake
C24_FundedReached ==
    /\ Succeeded(last, "fund_rewards")
    /\ last.args.admin = staking_pool.admin
    /\ ~BIsZero(stake_bal[reward_vault])
    /\ ~BIsZero(staking_pool.total_staked)

C27_WideIntermediate ==
    [][(last'.op = "swap_tokens" /\ ~BIsZero(last'.args.amount_in))
        => \E m \in {last'.args.accounts.user_token_in[2]} :
             LET a   == ExactAmountInAfterFee(last'.args.amount_in, amm.fee)
                 sum == BAdd(Reserve(m), a)
             IN  (~BIsZero(sum) /\ BLe(sum, U64Max))
                    => /\ last'.res # "Panic"
                       /\ last'.out = Some(ExactAmountOut(Reserve(m), Reserve(OtherMint(m)),
                                                          a))]_vars

\* C27, reached: a swap has aborted on amount_in * (10000 - fee) > 2^64 - 1 although
\* the after-fee input, the new reserve and the output all fit in 64 bits
C27_ProductOverflow ==
    /\ last.op = "swap_tokens"
    /\ last.res = "Panic"
    /\ \E m \in {last.args.accounts.user_token_in[2]} :
         LET a == ExactAmountInAfterFee(last.args.amount_in, amm.fee)
         IN  /\ BLt(U64Max, BMul(last.args.amount_in, BN(FeeDenominator - amm.fee)))
             /\ BLe(BAdd(Reserve(m), a), U64Max)
             /\ BLe(ExactAmountOut(Reserve(m), Reserve(OtherMint(m)), a), U64Max)
             /\ ~BIsZero(Reserve(m))

(***************************************************************************)
(* C28.  No staking instruction commits a wrapped or truncated value: an   *)
(* instruction on a position succeeds only if the per-share increment, the *)
(* newly settled pending reward and the resynchronized reward_debt fit in  *)
(* 64 bits, so that what it stores are the exact values.                   *)
(***************************************************************************)
C28_NothingTruncated ==
    [][PositionOp(last')
        => LET u      == last'.args.user
               before == user_stake[u]
               after  == user_stake'[u]
               acc    == staking_pool'.accumulated_reward_per_share
           IN  /\ last'.out.time_elapsed >= 0
               /\ BLe(BSub(CaughtUp(staking_pool, last'.args.current_time),
                           staking_pool.accumulated_reward_per_share), U64Max)
               /\ acc = CaughtUp(staking_pool, last'.args.current_time)
               /\ BLe(Unbooked(before, acc), U64Max)
               /\ BLe(ExactRewardDebt(after, staking_pool'), U64Max)
               /\ after.reward_debt = ExactRewardDebt(after, staking_pool')]_vars

\* C28, reached: an add_stake 2 seconds after the last update of a pool with rate 2^63
\* and 1 token staked has succeeded with the increment 2^64 stored as 0
C28_IncrementWrapped ==
    /\ Succeeded(last, "add_stake")
    /\ last.out.time_elapsed = 2
    /\ last.args.amount = BN(1)
    /\ staking_pool.reward_rate = BShl(BOne, 63)
    /\ staking_pool.total_staked = BN(2)
    /\ BIsZero(staking_pool.accumulated_reward_per_share)

(***************************************************************************)
(* C29.  No instruction called with non-zero amounts reaches an arithmetic *)
(* overflow or a division by zero, in any reachable state: not a swap into *)
(* an empty input-side reserve, not a swap whose after-fee input rounds to *)
(* zero, not an accrual after a long time.                                 *)
(***************************************************************************)
NonZeroRequest(l) ==
    /\ l.op \in {"deposit_liquidity", "withdraw_liquidity", "swap_tokens"}
         => ~ZeroAmountRequest(l)
    /\ l.op \in {"stake_tokens", "add_stake", "unstake_tokens", "fund_rewards"}
         => ~BIsZero(l.args.amount)
    /\ l.op = "initialize_staking_pool"
         => ~BIsZero(l.args.reward_rate) /\ I64Positive(l.args.cooldown_period)

C29_NoArithmeticAbort ==
    [][NonZeroRequest(last') => last'.res # "Panic"]_vars

\* C29, reached: a swap of 1 token at fee 30 through the vaults of an empty pool has
\* aborted on the division 0 / (0 + 0)
C29_DivisionByZero ==
    /\ last.res = "Panic"
    /\ PoolVaultSwap(last, "A")
    /\ last.args.amount_in = BN(1)
    /\ amm.fee = 30
    /\ BIsZero(ExactAmountInAfterFee(last.args.amount_in, amm.fee))
    /\ BIsZero(Reserve("A"))

StakedBy(u) == IF user_stake[u].init THEN user_stake[u].amount ELSE <<>>

C36_TotalStaked ==
    staking_pool.init
      => /\ staking_pool.total_staked = BAdd(StakedBy("u1"), StakedBy("u2"))
         /\ staking_pool.total_staked = stake_bal[stake_vault]

\* C36, reached: an unstake paid into the stake vault itself has left the tokens in the
\* vault, which now holds more than total_staked
C36_VaultAboveTotal ==
    /\ Succeeded(last, "unstake_tokens")
    /\ last.args.user_stake_account = stake_vault
    /\ staking_pool.total_staked = BAdd(StakedBy("u1"), StakedBy("u2"))
    /\ BLt(staking_pool.total_staked, stake_bal[stake_vault])

\* C36, the first half alone: total_staked is the sum of the positions' amounts
C36_SumOfPositions ==
    staking_pool.init
      => staking_pool.total_staked = BAdd(StakedBy("u1"), StakedBy("u2"))

(***************************************************************************)
(* C37.  In every reachable state and at every later time,                 *)
(* floor(amount * accumulated_reward_per_share / PRECISION) of a position  *)
(* is at least its reward_debt, so the subtraction that settles the newly  *)
(* earned reward in add_stake, unstake_tokens and claim_rewards never      *)
(* underflows.                                                             *)
(***************************************************************************)
C37_DebtCovered ==
    \A u \in StakeUsers :
       user_stake[u].init
         => /\ BLe(user_stake[u].reward_debt,
                   BDivMod(BMul(user_stake[u].amount,
                                staking_pool.accumulated_reward_per_share), Precision)[1])
            /\ \A dt \in 0 .. 10 :
                 LET pool == UpdatePool(staking_pool, now + dt)
                 IN  IsSome(pool)
                       => IsSome(PendingReward(user_stake[u],
                                               Unwrap(pool).accumulated_reward_per_share))

\* C37, reached: a position with a reward_debt above zero is settled again after the
\* accumulator has grown
C37_DebtSettledAgain ==
    /\ last.op \in {"add_stake", "unstake_tokens", "claim_rewards"}
    /\ last.res = "Ok"
    /\ last.out.time_elapsed > 0
    /\ ~BIsZero(user_stake[last.args.user].reward_debt)
    /\ ~BIsZero(user_stake[last.args.user].amount)

(***************************************************************************)
(* C38.  When both reserves are strictly positive a successful swap pays   *)
(* out strictly less than the output-side reserve, and so leaves both      *)
(* reserves of the funded pool strictly positive.                          *)
(***************************************************************************)
Funded == ~BIsZero(Reserve("A")) /\ ~BIsZero(Reserve("B"))

C38_ReservesStayPositive ==
    [][Succeeded(last', "swap_tokens") /\ Funded
        => /\ BLt(Unwrap(last'.out), Reserve(OtherMint(last'.args.accounts.user_token_in[2])))
           /\ Funded']_vars

\* C38, reached: a swap on a funded pool has emptied a reserve, paid out of a vault
\* that is not the output side's
C38_ReserveEmptied ==
    /\ Succeeded(last, "swap_tokens")
    /\ ~BIsZero(lp_supply)
    /\ ~BIsZero(Unwrap(last.out))
    /\ last.args.accounts.vault_token_out
         = <<Pool, last.args.accounts.user_token_in[2]>>
    /\ BIsZero(Reserve(last.args.accounts.user_token_in[2]))

\* C38, the first half alone: the amount quoted is below the output-side reserve
C38_QuoteBelowReserve ==
    [][Succeeded(last', "swap_tokens") /\ Funded
        => BLt(Unwrap(last'.out),
               Reserve(OtherMint(last'.args.accounts.user_token_in[2])))]_vars

(***************************************************************************)
(* C39.  A position is created at most once per participant: stake_tokens, *)
(* which sets amount to the deposit and pending_rewards to 0, fails on an  *)
(* existing position and leaves it, the pool and the balances as they      *)
(* were; no later stake overwrites or resets amount or pending_rewards.    *)
(***************************************************************************)
C39_PositionCreatedOnce ==
    [][last'.op = "stake_tokens"
        => IF user_stake[last'.args.user].init
           THEN /\ last'.res = "AccountAlreadyInUse"
                /\ user_stake' = user_stake
                /\ staking_pool' = staking_pool
                /\ stake_bal' = stake_bal
           ELSE last'.res = "Ok"
                  => /\ user_stake'[last'.args.user].init
                     /\ user_stake'[last'.args.user].amount = last'.args.amount
                     /\ BIsZero(user_stake'[last'.args.user].pending_rewards)]_vars

\* C39, reached: stake_tokens was refused on a position that holds an amount and
\* pending rewards
C39_SecondStakeRefused ==
    /\ last.op = "stake_tokens"
    /\ last.res = "AccountAlreadyInUse"
    /\ ~BIsZero(last.args.amount)
    /\ ~BIsZero(user_stake[last.args.user].amount)
    /\ ~BIsZero(user_stake[last.args.user].pending_rewards)

(***************************************************************************)
(* C31.  The marketplace fee is at most 10000 in every reachable state:    *)
(* initialize rejects fee > 10000 with InvalidFee and a name that is empty *)
(* or longer than 32 bytes with InvalidName; update_marketplace succeeds   *)
(* only for the stored admin, rejects a new fee > 10000 with InvalidFee    *)
(* leaving the fee unchanged, and with new_fee = None changes nothing.     *)
(***************************************************************************)
BadName(name) == Len(name) = 0 \/ Len(name) > MaxNameLen

\* update_marketplace as stated, and the fee bound
UpdateAsStated ==
    /\ marketplace'.init => marketplace'.fee <= MaxMarketFee
    /\ last'.op = "update_marketplace"
         => /\ last'.res = "Ok" => last'.args.admin = marketplace.admin
            /\ last'.res # "Ok" => marketplace' = marketplace
            /\ last'.args.admin = marketplace.admin
                 => IF IsSome(last'.args.new_fee)
                    THEN IF Unwrap(last'.args.new_fee) > MaxMarketFee
                         THEN last'.res = "InvalidFee"
                         ELSE /\ last'.res = "Ok"
                              /\ marketplace'
                                   = [marketplace EXCEPT !.fee = Unwrap(last'.args.new_fee)]
                    ELSE last'.res = "Ok" /\ marketplace' = marketplace

C31_MarketplaceFee ==
    [][/\ UpdateAsStated
       /\ last'.op = "initialize"
            => IF last'.args.fee > MaxMarketFee THEN last'.res = "InvalidFee"
               ELSE IF BadName(last'.args.name) THEN last'.res = "InvalidName"
               ELSE last'.res = "Ok" /\ marketplace'.fee = last'.args.fee]_vars

\* C31, reached: initialize with a name of 33 bytes and a fee of at most 10000 has
\* failed, but not with InvalidName
C31_LongNameAborted ==
    /\ last.op = "initialize"
    /\ Len(last.args.name) = MaxNameLen + 1
    /\ last.args.fee <= MaxMarketFee
    /\ last.res \notin {"Ok", "InvalidName"}

\* C31 without the names longer than 32 bytes
C31_FeeAndShortNames ==
    [][/\ UpdateAsStated
       /\ last'.op = "initialize" /\ Len(last'.args.name) <= MaxNameLen
            => IF last'.args.fee > MaxMarketFee THEN last'.res = "InvalidFee"
               ELSE IF BadName(last'.args.name) THEN last'.res = "InvalidName"
               ELSE last'.res = "Ok" /\ marketplace'.fee = last'.args.fee]_vars

(***************************************************************************)
(* C32.  For every NFT mint a Listing exists exactly when the NFT is in    *)
(* the listing's vault (vault balance 1).  listing requires price > 0      *)
(* (else InvalidPrice) and moves the NFT from the maker to the vault; a    *)
(* listing ends by one successful delist or purchase, which closes listing *)
(* and vault; after that it can be neither delisted nor purchased.         *)
(***************************************************************************)
Listed(ls, v, mint) == ls[mint].init
InVault(ls, v, mint) == v[mint].init /\ v[mint].amount = 1

C32_ListingLifecycle ==
    [][\A mint \in NftMints :
         /\ Listed(listing', vault', mint) <=> InVault(listing', vault', mint)
         /\ vault'[mint].amount + ata'[<<"m1", mint>>] + ata'[<<"m2", mint>>] = 1
         /\ (last'.op = "listing" /\ last'.args.maker_mint = mint)
              => /\ last'.args.price = 0 => last'.res # "Ok"
                 /\ (last'.args.price = 0 /\ ata[<<last'.args.maker, mint>>] = 1)
                      => last'.res = "InvalidPrice"
                 /\ last'.res = "Ok"
                      => /\ ata[<<last'.args.maker, mint>>] = 1
                         /\ ata'[<<last'.args.maker, mint>>] = 0
                         /\ ~Listed(listing, vault, mint)
                         /\ listing'[mint].maker = last'.args.maker
                         /\ listing'[mint].price = last'.args.price
         /\ (Listed(listing, vault, mint) /\ ~Listed(listing', vault', mint))
              => /\ Succeeded(last', "delist") \/ Succeeded(last', "purchase")
                 /\ last'.args.maker_mint = mint
                 /\ ~vault'[mint].init
         /\ (last'.op \in {"delist", "purchase"} /\ last'.args.maker_mint = mint
                /\ ~Listed(listing, vault, mint))
              => /\ last'.res # "Ok"
                 /\ <<listing', vault', ata', lamports', rewards'>>
                      = <<listing, vault, ata, lamports, rewards>>]_vars

\* C32, reached: a purchase was refused on a listing that an earlier purchase has ended
C32_EndedListingRefused ==
    /\ last.op = "purchase"
    /\ last.res = "AccountNotInitialized"
    /\ ~listing[last.args.maker_mint].init
    /\ ata[<<FirstHolder(last.args.maker_mint), last.args.maker_mint>>] = 0

(***************************************************************************)
(* C33.  delist succeeds only when the signer is listing.maker; any other  *)
(* signer gets Unauthorized and listing, vault and the ownership of the    *)
(* NFT stay as they are.  A successful delist returns the NFT from the     *)
(* vault to the maker and closes listing and vault.                        *)
(***************************************************************************)
C33_DelistByMaker ==
    [][last'.op = "delist" =>
         LET mint   == last'.args.maker_mint
             signer == last'.args.maker
         IN  /\ (listing[mint].init /\ signer # listing[mint].maker)
                  => /\ last'.res = "Unauthorized"
                     /\ <<listing', vault', ata', lamports', rewards', marketplace'>>
                          = <<listing, vault, ata, lamports, rewards, marketplace>>
             /\ last'.res = "Ok"
                  => /\ listing[mint].init
                     /\ signer = listing[mint].maker
                     /\ vault[mint].amount = 1
                     /\ ata' = [ata EXCEPT ![<<listing[mint].maker, mint>>] = @ + 1]
                     /\ ~listing'[mint].init
                     /\ ~vault'[mint].init /\ vault'[mint].amount = 0
                     /\ \A other \in NftMints \ {mint} :
                          listing'[other] = listing[other] /\ vault'[other] = vault[other]
                     /\ <<lamports', rewards', marketplace'>>
                          = <<lamports, rewards, marketplace>>]_vars

\* C33, reached: a signer who is not the maker was refused and the listing still holds the NFT
C33_StrangerRefused ==
    /\ last.op = "delist"
    /\ last.res = "Unauthorized"
    /\ listing[last.args.maker_mint].init
    /\ listing[last.args.maker_mint].maker # last.args.maker
    /\ vault[last.args.maker_mint].amount = 1

(***************************************************************************)
(* C34.  A successful purchase charges the taker exactly listing.price:    *)
(* floor(price * fee / 10000) goes to the treasury and price minus that    *)
(* fee to the maker; the two sum to the price and the subtraction does not *)
(* underflow.  The NFT moves from the vault to the taker and exactly       *)
(* 10_000_000 reward units are minted to the taker.                        *)
(***************************************************************************)
\* lam after amount has moved from one account to another
Moved(lam, from, to, amount) ==
    LET debited == [lam EXCEPT ![from] = @ - amount]
    IN  [debited EXCEPT ![to] = @ + amount]

EscrowSame ==
    <<escrow', escrow_vault', escrow_bal'>> = <<escrow, escrow_vault, escrow_bal>>

\* the tokens of mint that the wallets of owner hold
HeldBy(b, owner, mint) == b[<<owner, mint>>]

\* a closed escrow refuses exchange_escrow and cancel_escrow
RefusedWhenClosed ==
    (/\ last'.op \in {"exchange_escrow", "cancel_escrow"}
     /\ ~escrow[last'.args.maker].init)
        => last'.res # "Ok" /\ EscrowSame

\* cancel_escrow empties the vault into the account the maker names and closes the escrow
CancelAsStated ==
    Succeeded(last', "cancel_escrow") =>
        LET maker == last'.args.maker
            v     == escrow_token_account(maker)
        IN  /\ escrow[maker].init /\ escrow[maker].maker = maker
            /\ ~escrow'[maker].init
            /\ BIsZero(escrow_bal'[v])
            /\ escrow_bal'[last'.args.maker_token_account]
                 = BAdd(escrow_bal[last'.args.maker_token_account], escrow_bal[v])

\* exchange_escrow between two different users
ExchangeAsStated ==
    (/\ last'.op = "exchange_escrow"
     /\ escrow[last'.args.maker].init
     /\ last'.args.taker # last'.args.maker)
        => LET maker == last'.args.maker
               taker == last'.args.taker
               e     == escrow[maker]
               v     == escrow_token_account(maker)
           IN  /\ BLt(HeldBy(escrow_bal, taker, e.mint_b), e.amount_b)
                    => last'.res = "InsufficientFunds" /\ EscrowSame
               /\ last'.res = "Ok"
                    => /\ ~escrow'[maker].init
                       /\ BIsZero(escrow_bal'[v])
                       /\ escrow_bal'[last'.args.taker_receive_token_account]
                            = BAdd(escrow_bal[last'.args.taker_receive_token_account],
                                   escrow_bal[v])
                       /\ HeldBy(escrow_bal', maker, e.mint_b)
                            = BAdd(HeldBy(escrow_bal, maker, e.mint_b), e.amount_b)
                       /\ HeldBy(escrow_bal', taker, e.mint_b)
                            = BSub(HeldBy(escrow_bal, taker, e.mint_b), e.amount_b)

C40_EscrowSettledOnce ==
    [][RefusedWhenClosed /\ CancelAsStated /\ ExchangeAsStated]_vars

\* C40, observed: an exchange has succeeded, the escrowed tokens have left the vault, and the
\* maker holds no more of mint_b than before the escrow was made
C40_MakerUnpaid ==
    /\ Succeeded(last, "exchange_escrow")
    /\ last.args.taker # last.args.maker
    /\ ~BIsZero(last.out.escrow_token_balance)
    /\ BIsZero(escrow_bal[escrow_token_account(last.args.maker)])
    /\ last.args.taker_token_account # last.args.maker_receive_token_account
    /\ last.args.taker_token_account # last.args.taker_receive_token_account
    /\ last.args.maker_receive_token_account # last.args.taker_receive_token_account
    /\ HeldBy(escrow_bal, last.args.maker, "B") = BN(EscrowBal)

\* what holds of C40: a closed escrow is refused, every escrow account is made at most once,
\* and a successful exchange moves the vault's whole balance to taker_receive_token_account
\* and amount_b from taker_token_account to maker_receive_token_account
C40_ClosedEscrowRefused ==
    [][/\ RefusedWhenClosed
       /\ Succeeded(last', "exchange_escrow") =>
            LET maker == last'.args.maker
                v     == escrow_token_account(maker)
                paid  == TokenTransfer(escrow_bal, v, last'.args.taker_receive_token_account,
                                       EscrowKey(maker), escrow_bal[v])
            IN  /\ ~escrow'[maker].init
                /\ IsSome(paid)
                /\ Some(escrow_bal')
                     = TokenTransfer(Unwrap(paid), last'.args.taker_token_account,
                                     last'.args.maker_receive_token_account,
                                     last'.args.taker, escrow[maker].amount_b)
       /\ \A u \in EscrowUsers :
            escrow_vault[u].init => /\ escrow_vault'[u].init
                                    /\ (escrow'[u].init => escrow[u].init)
      ]_vars

=============================================================================
